---- MODULE Spec2Model ----
(***************************************************************************)
(* Chunked transcription orchestration of the audio-transcription app.     *)
(*                                                                         *)
(* One session of either endpoint is modelled:                             *)
(*   route = "stream"  /api/transcribe-stream  (processAudioStream)        *)
(*   route = "json"    /api/transcribe         (POST of route.ts)          *)
(* Both drive transcribeAudio / processWithModel of lib/gemini.ts.         *)
(*                                                                         *)
(* JavaScript runs each piece of code between two awaits to completion,    *)
(* so the consumer can only disconnect while the session is suspended in   *)
(* an await of real I/O or of a timer (AwaitPoints).  The code detects a   *)
(* gone consumer by controller.desiredSize === null; the model takes the   *)
(* disconnect to be exactly the event that makes this test true.           *)
(***************************************************************************)
EXTENDS Integers, Sequences, FiniteSets, TLC

\* ---------------------------------------------------------------- bounds
\* longest chunk list chunkAudio hands to the loop in the model
MaxChunks == 3

\* ------------------------------------------------------ program constants
NumModels == 4          \* modelNames.length
maxRetriesFour == 2 + 2
maxRetries == 3         \* attempts per model
TickMs == 1000          \* one tick of the interruptible delay
WaitMsShort == 15 * TickMs - TickMs
WaitMs == 15000         \* inter-chunk delay
SplitThresholdLow == 5 - 3
SplitThresholdMinutes == 5

Null == "null"
Open == "open"
\* the placeholder text of a failed chunk (the source spells it in Japanese,
\* "[shori era-]": "[processing error]")
ErrorPlaceholder == << "[processing error]" >>

Routes == {"stream", "json"}

\* byte lengths of the uploaded asset: 3, 10, 20 and 40 minutes at 128 kbps,
\* and the lengths on both sides of 5.5, 15.5 and 30.5 minutes, where the
\* rounded minutes step over a threshold of the planner
SmallSize == 3 * 60 * 16000
FileSizes == {SmallSize, 9600000, 19200000, 38400000,
              5279999, 5280000, 14879999, 14880000, 29279999, 29280000}

\* what the provider can answer to one generateContent call: a rejection
\* (rate limit, timeout, refusal) or a response text, possibly empty or
\* whitespace-only.  Texts are sequences of characters.
Responses == {<< >>, <<" ">>, <<"a">>, <<" ", "a">>}
Answers == {[ok |-> TRUE, text |-> t, error |-> "none"] : t \in Responses}
ProviderOutcomes == {[ok |-> FALSE, text |-> << >>, error |-> "rejected"]} \cup Answers

\* the same with the rejection told apart by its cause, for the functions of
\* the transcription client taken on their own (specification SpecClient):
\* a rate limit or timeout, a refusal of the content, a refusal of the
\* declared format
RejectionCauses == {"transient", "permanent", "format"}
ClientOutcomes ==
    {[ok |-> FALSE, text |-> << >>, error |-> e] : e \in RejectionCauses} \cup Answers

\* no function of SpecPlan is applied in a session
NoCall == [fn |-> "none"]
Pending == [fn |-> "pending"]

\* ---- the request: the "audio" field of the form and the file's name
\* A file name is the sequence of its parts between dots ("talk.mp3" is
\* << "talk", "mp3" >>, "wav" is << "wav" >>, "talk." is << "talk", "" >>).
Upload(name) == [fn |-> "POST", field |-> "file", name |-> name]
\* no "audio" field, and an "audio" field that is a text value instead of a file
NoField == [fn |-> "POST", field |-> "none", name |-> << "" >>]
TextField == [fn |-> "POST", field |-> "text", name |-> << "" >>]

DefaultName == << "talk", "mp3" >>
OtherNames ==
    {<< "talk", e >> : e \in {"m4a", "wav", "flac", "ogg", "webm", "MP3",
                              "aac", "txt", ""}}
    \cup {<< "talk" >>, << "wav" >>, << "talk", "mp3", "exe" >>, << "a", "b", "flac" >>}

\* String.prototype.toLowerCase on a part of a name
toLowerCase(part) == IF part = "MP3" THEN "mp3" ELSE part

\* audioFile.name.toLowerCase().split('.').pop()
LastLowerPart(name) == toLowerCase(name[Len(name)])

\* allowedExtensions, each without its leading dot: the code compares
\* '.' + the last part with the list
allowedExtensions == {"mp3", "m4a", "wav", "flac", "ogg", "webm"}

\* maxSize of both routes
MaxFileSize == 100 * 1024 * 1024

VARIABLES
    route,              \* which endpoint serves the session
    fileSize,           \* audioFile.size
    readOk,             \* whether audioFile.arrayBuffer() resolves
    pc,                 \* position of the session's async function
    desiredSize,        \* controller.desiredSize: Null once the consumer is gone
    isStreamClosed,     \* processAudioStream's flag
    events,             \* events enqueued on the stream, in order
    closeCalls,         \* number of controller.close() calls
    estimatedMinutes,
    chunkDuration,
    totalChunks,        \* chunks.length
    i,                  \* loop index (0-based, as in the code)
    allChunkResults,
    transcriptions,
    transcriptionText,
    chunkText,          \* value returned by the last transcribeAudio
    modelIdx,           \* position in modelNames (1-based)
    retryCount,
    lastError,
    waitTime,
    inFlight,           \* generateContent calls issued and not yet settled
    response,           \* HTTP status of the json route (0: none yet)
    outcome,            \* "running", "completed", "cancelled", "failed"
    failCause,          \* what threw into the outer catch
    \* history variables (observations, not program state)
    callsFor,           \* transcribeAudio invocations per chunk (0: whole file)
    failedChunks,       \* chunks whose transcribeAudio threw
    discPc,             \* pc at which the consumer disconnected
    discChunk,          \* 1-based chunk being handled at the disconnect
    ticks,              \* 1-second ticks elapsed since the last wait began
    ticksAfterDisc,     \* ticks of the inter-chunk delay completed after the disconnect
    callsAfterDisc,     \* provider calls issued after the disconnect
    dropped,            \* events sendEvent did not enqueue
    \* the planning functions taken on their own (specification SpecPlan)
    call,               \* the function applied and its arguments
    ret                 \* its result, Pending before the call

vars == << route, fileSize, readOk, pc, desiredSize, isStreamClosed, events,
           closeCalls, estimatedMinutes, chunkDuration, totalChunks, i,
           allChunkResults, transcriptions, transcriptionText, chunkText,
           modelIdx, retryCount, lastError, waitTime, inFlight, response,
           outcome, failCause, callsFor, failedChunks, discPc, discChunk,
           ticks, ticksAfterDisc, callsAfterDisc, dropped, call, ret >>

\* groups used in UNCHANGED
planVars == << estimatedMinutes, chunkDuration, totalChunks >>
clientVars == << modelIdx, retryCount, lastError >>
discVars == << discPc, discChunk >>
requestVars == << route, fileSize, readOk, call >>
inputVars == << route, fileSize, readOk, call, ret >>

\* ------------------------------------------------------------ pure helpers
\* Math.round of a non-negative quotient n/d
Round(n, d) == (2 * n + d) \div (2 * d)

\* Math.round((audioFile.size * 8) / (128 * 1000 * 60))
EstimatedMinutes(size) == Round(size * 8, 128 * 1000 * 60)

getOptimalChunkSizeInclusive(fileSizeBytes, estimatedDurationMinutes) ==
    IF estimatedDurationMinutes >= 30 THEN 60
    ELSE IF estimatedDurationMinutes > 15 THEN 120
    ELSE IF estimatedDurationMinutes > 5 THEN 180
    ELSE 300

getOptimalChunkSizeSwapped(fileSizeBytes, estimatedDurationMinutes) ==
    IF estimatedDurationMinutes > 30 THEN 120
    ELSE IF estimatedDurationMinutes > 15 THEN 60
    ELSE IF estimatedDurationMinutes > 5 THEN 180
    ELSE 300

getOptimalChunkSize(fileSizeBytes, estimatedDurationMinutes) ==
    IF estimatedDurationMinutes > 30 THEN 60
    ELSE IF estimatedDurationMinutes > 15 THEN 120
    ELSE IF estimatedDurationMinutes > 5 THEN 180
    ELSE 300

RECURSIVE TrimStart(_)
TrimStart(s) == IF s # << >> /\ Head(s) = " " THEN TrimStart(Tail(s)) ELSE s

RECURSIVE TrimEnd(_)
TrimEnd(s) ==
    IF s # << >> /\ s[Len(s)] = " " THEN TrimEnd(SubSeq(s, 1, Len(s) - 1)) ELSE s

\* String.prototype.trim
Trim(s) == TrimEnd(TrimStart(s))

\* A document text is a sequence of segments: the "[m:ss - m:ss]\n" header of
\* a chunk (a function of the chunk's time range, hence of its index), a body
\* text, or the separator "\n\n".
Seg(kind, idx, body) == [kind |-> kind, idx |-> idx, body |-> body]
Separator == << Seg("sep", 0, << >>) >>

\* Array.prototype.join: the pieces with the separator between neighbours
RECURSIVE Join(_, _)
Join(pieces, sep) ==
    IF pieces = << >> THEN << >>
    ELSE IF Len(pieces) = 1 THEN pieces[1]
    ELSE pieces[1] \o sep \o Join(Tail(pieces), sep)

\* ------------------------------------------------------------------ stream
\* checkStreamStatus(): its value ...
CheckStreamStatusAlwaysOpen == TRUE
CheckStreamStatus == desiredSize # Null
\* ... and the flag it leaves behind
FlagAfterCheck == isStreamClosed \/ ~CheckStreamStatus

\* an event of the stream; fields an event type does not carry are empty
Event(type, idx, status, text, doc, results) ==
    [type |-> type, chunkIndex |-> idx, status |-> status, text |-> text,
     doc |-> doc, results |-> results, totalChunks |-> 0, chunkDuration |-> 0]
PlainEvent(type) == Event(type, 0, "", << >>, << >>, << >>)
\* chunks-created {totalChunks, chunkDuration}
ChunksCreated(n, duration) ==
    [PlainEvent("chunks-created") EXCEPT !.totalChunks = n, !.chunkDuration = duration]

\* sendEvent applied to a list of events in one synchronous stretch
SendEventsUnguarded(list) ==
    /\ events' = events \o list
    /\ dropped' = IF desiredSize # Null THEN dropped ELSE dropped + Len(list)

SendEvents(list) ==
    /\ events' = IF desiredSize # Null THEN events \o list ELSE events
    /\ dropped' = IF desiredSize # Null THEN dropped ELSE dropped + Len(list)

NoEvents == UNCHANGED << events, dropped >>

ChunkResult(idx, text, status) == [chunkIndex |-> idx, text |-> text, status |-> status]

\* the timestamped piece pushed to transcriptions for chunk idx
Piece(idx, body) == << Seg("header", idx, << >>), Seg("body", 0, body) >>

split == estimatedMinutes > SplitThresholdMinutes

\* the session is suspended in an await a macrotask has to end
AwaitPoints == {"read", "awaitGenerate", "backoff", "waitTick", "sleep"}

histVars == << ticks, ticksAfterDisc >>

Init ==
    /\ route \in Routes
    /\ \/ /\ call = Upload(DefaultName)
          /\ fileSize \in FileSizes \cup {0, MaxFileSize}
          /\ readOk \in BOOLEAN
       \/ /\ call = Upload(DefaultName)
          /\ fileSize = MaxFileSize + 1
          /\ readOk = TRUE
       \/ /\ call \in {Upload(n) : n \in OtherNames} \cup {NoField, TextField}
          /\ fileSize = SmallSize
          /\ readOk = TRUE
    /\ pc = "post"
    /\ desiredSize = Open
    /\ isStreamClosed = FALSE
    /\ events = << >>
    /\ closeCalls = 0
    /\ estimatedMinutes = 0
    /\ chunkDuration = 0
    /\ totalChunks = 0
    /\ i = 0
    /\ allChunkResults = << >>
    /\ transcriptions = << >>
    /\ transcriptionText = << >>
    /\ chunkText = << >>
    /\ modelIdx = 0
    /\ retryCount = 0
    /\ lastError = "none"
    /\ waitTime = 0
    /\ inFlight = 0
    /\ response = 0
    /\ outcome = "running"
    /\ failCause = "none"
    /\ callsFor = [j \in 0..MaxChunks |-> 0]
    /\ failedChunks = {}
    /\ discPc = "none"
    /\ discChunk = 0
    /\ ticks = 0
    /\ ticksAfterDisc = 0
    /\ callsAfterDisc = 0
    /\ dropped = 0
    /\ ret = NoCall

\* ------------------------------------------------------------------- POST
\* POST of both routes up to the file read: the three checks, each answered
\* with status 400; an "audio" field that is text has no size and no name,
\* so the extension check throws and the catch answers 500.  An accepted
\* request of the streaming route is answered at once with the stream.
SizeAccepted(size) == size <= MaxFileSize
ExtensionAccepted(name) == LastLowerPart(name) \in allowedExtensions

Post ==
    /\ pc = "post"
    /\ IF call.field = "none"
       THEN /\ response' = 400 /\ outcome' = "rejected" /\ pc' = "done"
       ELSE IF call.field = "text"
       THEN /\ response' = 500 /\ outcome' = "rejected" /\ pc' = "done"
       ELSE IF ~SizeAccepted(fileSize) \/ ~ExtensionAccepted(call.name)
       THEN /\ response' = 400 /\ outcome' = "rejected" /\ pc' = "done"
       ELSE /\ response' = IF route = "stream" THEN 200 ELSE response
            /\ outcome' = outcome
            /\ pc' = "read"
    /\ UNCHANGED << inputVars, desiredSize, isStreamClosed, events, closeCalls,
                    planVars, i, allChunkResults, transcriptions,
                    transcriptionText, chunkText, clientVars, waitTime,
                    inFlight, failCause, callsFor, failedChunks, discVars,
                    histVars, callsAfterDisc, dropped >>

\* --------------------------------------------------- transcription client
\* 1-based index of the chunk the loop is at; 0 is the whole file of an
\* unsplit session
CurrentChunk == IF split THEN i + 1 ELSE 0

\* where transcribeAudio's caller continues when it returns / throws
ReturnPc == IF split THEN "chunkSuccess" ELSE "wholeDone"
ThrowPcAlwaysOuter == "outerCatch"
ThrowPc == IF split THEN "chunkCatch" ELSE "outerCatch"

\* ---- what SpecClient observes of one transcribeAudio invocation: the
\* generateContent calls (model, attempt, declared format, payload size) and
\* the backoff waits in order, how the last call settled, and whether a call
\* or a wait followed a refusal of the content.  A session observes nothing.
Observed == call.fn = "transcribeAudio"

\* ---- one upload posted to both routes (specification SpecPair): the
\* provider answers the calls made for a chunk by a script fixed beforehand,
\* the same for both routes
Paired == ret.fn = "pair"
Rejection == [ok |-> FALSE, text |-> << >>, error |-> "rejected"]
Answer(t) == [ok |-> TRUE, text |-> t, error |-> "none"]
\* answered at once, answered after a retry, answered by the second model
\* after a whitespace answer and rejections, never answered
Scripts ==
    { << Answer(<<"a">>) >>,
      << Answer(<<"b">>) >>,
      << Rejection, Answer(<<" ", "a">>) >>,
      << Answer(<<" ">>), Rejection, Rejection, Answer(<<"b">>) >>,
      [k \in 1..(NumModels * 3) |-> Rejection] }
\* the provider's answer to the call being awaited
ScriptedOutcome ==
    ret.scripts[IF estimatedMinutes > SplitThresholdMinutes THEN i + 1 ELSE 1]
               [(modelIdx - 1) * 3 + retryCount + 1]

NoHistory ==
    [fn |-> "transcribeAudio", log |-> << >>, waits |-> << >>,
     lastCall |-> "none", afterPermanent |-> FALSE]

CallLogged ==
    [ret EXCEPT !.log = Append(@, [model |-> modelIdx, attempt |-> retryCount + 1,
                                   mimeType |-> call.mimeType, bytes |-> call.bytes]),
                !.afterPermanent = @ \/ ret.lastCall = "permanent"]

WaitLogged ==
    [ret EXCEPT !.waits = Append(@, [model |-> modelIdx, afterAttempt |-> retryCount]),
                !.afterPermanent = @ \/ ret.lastCall = "permanent"]

Settled(r) ==
    IF ~r.ok THEN r.error
    ELSE IF Len(Trim(r.text)) = 0 THEN "empty" ELSE "text"

\* "for (const modelName of modelNames)": the model tried after model m
NextModelSkipsOne(m) == m + 2
NextModel(m) == m + 1

\* transcribeAudio is entered: the model loop starts at the first model and
\* processWithModel starts with retryCount = 0
TranscribeAudio ==
    /\ pc = "invoke"
    /\ modelIdx' = 1
    /\ retryCount' = 0
    /\ lastError' = "none"
    /\ callsFor' = [callsFor EXCEPT ![CurrentChunk] = @ + 1]
    /\ pc' = "attempt"
    /\ UNCHANGED << inputVars, desiredSize, isStreamClosed, events, closeCalls,
                    planVars, i, allChunkResults, transcriptions,
                    transcriptionText, chunkText, waitTime, inFlight, response,
                    outcome, failCause, failedChunks, discVars, histVars,
                    callsAfterDisc, dropped >>

\* "await model.generateContent(...)": the call is sent and the function
\* is suspended until it settles
IssueCallNoAwait ==
    /\ inFlight' = inFlight + 1
    /\ pc' = "attempt"

IssueCall ==
    /\ inFlight' = inFlight + 1
    /\ pc' = "awaitGenerate"

\* one turn of processWithModel's while loop up to the provider call
Attempt ==
    /\ pc = "attempt"
    /\ IF retryCount < maxRetries
       THEN /\ IssueCall
            /\ callsAfterDisc' = IF desiredSize = Null THEN callsAfterDisc + 1
                                 ELSE callsAfterDisc
            /\ ret' = IF Observed THEN CallLogged ELSE ret
            /\ UNCHANGED << failCause, failedChunks >>
       ELSE \* line 123, after the loop
            /\ pc' = ThrowPc
            /\ failCause' = IF split THEN failCause ELSE "transcribe"
            /\ failedChunks' = IF split THEN failedChunks \cup {i + 1} ELSE failedChunks
            /\ UNCHANGED << inFlight, callsAfterDisc, ret >>
    /\ UNCHANGED << requestVars, desiredSize, isStreamClosed, events, closeCalls,
                    planVars, i, allChunkResults, transcriptions,
                    transcriptionText, chunkText, clientVars, waitTime,
                    response, outcome, callsFor, discVars, histVars, dropped >>

\* the provider call settles: a non-empty text is returned trimmed; an empty
\* or whitespace-only text and a rejection both land in the catch, which
\* rethrows after maxRetries attempts (the model loop then moves on to the
\* next model, or transcribeAudio throws the last error) and backs off
\* otherwise
\* the response passes "if (!text || text.trim().length === 0) throw"
AcceptsTextUntrimmed(r) == r.ok
AcceptsText(r) == r.ok /\ Len(Trim(r.text)) # 0

ProviderReturn ==
    /\ pc = "awaitGenerate"
    /\ inFlight > 0
    /\ inFlight' = inFlight - 1
    /\ \E r \in (IF Observed THEN ClientOutcomes
                ELSE IF Paired THEN {ScriptedOutcome}
                ELSE ProviderOutcomes) :
         /\ ret' = IF Observed THEN [ret EXCEPT !.lastCall = Settled(r)] ELSE ret
         /\ IF AcceptsText(r)
            THEN /\ chunkText' = Trim(r.text)
                 /\ pc' = ReturnPc
                 /\ UNCHANGED << clientVars, failCause, failedChunks >>
            ELSE /\ chunkText' = chunkText
                 /\ IF retryCount + 1 >= maxRetries
                    THEN /\ lastError' = IF r.ok THEN "empty" ELSE r.error
                         /\ IF modelIdx < NumModels
                            THEN /\ modelIdx' = NextModel(modelIdx)
                                 /\ retryCount' = 0
                                 /\ pc' = "attempt"
                                 /\ UNCHANGED << failCause, failedChunks >>
                            ELSE /\ retryCount' = retryCount + 1
                                 /\ modelIdx' = modelIdx
                                 /\ pc' = ThrowPc
                                 /\ failCause' = IF split THEN failCause ELSE "transcribe"
                                 /\ failedChunks' = IF split THEN failedChunks \cup {i + 1}
                                                    ELSE failedChunks
                    ELSE /\ retryCount' = retryCount + 1
                         /\ pc' = "backoff"
                         /\ UNCHANGED << modelIdx, lastError, failCause, failedChunks >>
    /\ UNCHANGED << requestVars, desiredSize, isStreamClosed, events, closeCalls,
                    planVars, i, allChunkResults, transcriptions,
                    transcriptionText, waitTime, response, outcome, callsFor,
                    discVars, histVars, callsAfterDisc, dropped >>

\* the 20-second timer between two attempts fires
Backoff ==
    /\ pc = "backoff"
    /\ pc' = "attempt"
    /\ ret' = IF Observed THEN WaitLogged ELSE ret
    /\ UNCHANGED << requestVars, desiredSize, isStreamClosed, events, closeCalls,
                    planVars, i, allChunkResults, transcriptions,
                    transcriptionText, chunkText, clientVars, waitTime,
                    inFlight, response, outcome, failCause, callsFor,
                    failedChunks, discVars, histVars, callsAfterDisc, dropped >>

\* transcriptionText = await transcribeAudio(buffer, mimeType)
WholeFileDone ==
    /\ pc = "wholeDone"
    /\ transcriptionText' = << Seg("body", 0, chunkText) >>
    /\ pc' = "finish"
    /\ UNCHANGED << inputVars, desiredSize, isStreamClosed, events, closeCalls,
                    planVars, i, allChunkResults, transcriptions, chunkText,
                    clientVars, waitTime, inFlight, response, outcome,
                    failCause, callsFor, failedChunks, discVars, histVars,
                    callsAfterDisc, dropped >>

AfterLoopNoSeparator ==
    /\ pc = "afterLoop"
    /\ transcriptionText' = Join(transcriptions, << >>)
    /\ pc' = "finish"
    /\ UNCHANGED << inputVars, desiredSize, isStreamClosed, events, closeCalls,
                    planVars, i, allChunkResults, transcriptions, chunkText,
                    clientVars, waitTime, inFlight, response, outcome,
                    failCause, callsFor, failedChunks, discVars, histVars,
                    callsAfterDisc, dropped >>

\* transcriptionText = transcriptions.join('\n\n')
AfterLoop ==
    /\ pc = "afterLoop"
    /\ transcriptionText' = Join(transcriptions, Separator)
    /\ pc' = "finish"
    /\ UNCHANGED << inputVars, desiredSize, isStreamClosed, events, closeCalls,
                    planVars, i, allChunkResults, transcriptions, chunkText,
                    clientVars, waitTime, inFlight, response, outcome,
                    failCause, callsFor, failedChunks, discVars, histVars,
                    callsAfterDisc, dropped >>


\* ------------------------------------------------- /api/transcribe-stream
\* the consumer goes away while the session is suspended
Disconnect ==
    /\ route = "stream"
    /\ desiredSize = Open
    /\ pc \in AwaitPoints
    /\ desiredSize' = Null
    /\ discPc' = pc
    /\ discChunk' = i + 1
    /\ UNCHANGED << inputVars, pc, isStreamClosed, events, closeCalls, planVars,
                    i, allChunkResults, transcriptions, transcriptionText,
                    chunkText, clientVars, waitTime, inFlight, response,
                    outcome, failCause, callsFor, failedChunks, histVars,
                    callsAfterDisc, dropped >>

\* processAudioStream from the file read to the first suspension: the start
\* event, the split decision, the chunk plan
StreamRead ==
    /\ pc = "read"
    /\ route = "stream"
    /\ IF ~readOk
       THEN /\ pc' = "outerCatch"
            /\ failCause' = "read"
            /\ NoEvents
            /\ UNCHANGED planVars
       ELSE LET minutes == EstimatedMinutes(fileSize) IN
            /\ estimatedMinutes' = minutes
            /\ failCause' = failCause
            /\ IF minutes > SplitThresholdMinutes
               THEN \E n \in 1..MaxChunks :
                      /\ chunkDuration' = getOptimalChunkSize(fileSize, minutes)
                      /\ totalChunks' = n
                      /\ SendEvents(<< PlainEvent("start"), PlainEvent("info"),
                                       PlainEvent("info"),
                                       ChunksCreated(n, getOptimalChunkSize(fileSize, minutes)) >>)
                      /\ pc' = "loop"
               ELSE /\ SendEvents(<< PlainEvent("start"), PlainEvent("info") >>)
                    /\ pc' = "invoke"
                    /\ UNCHANGED << chunkDuration, totalChunks >>
    /\ UNCHANGED << inputVars, desiredSize, isStreamClosed, closeCalls, i,
                    allChunkResults, transcriptions, transcriptionText,
                    chunkText, clientVars, waitTime, inFlight, response,
                    outcome, callsFor, failedChunks, discVars, histVars,
                    callsAfterDisc >>

\* head of the chunk loop: the liveness check and the chunk-start event
StreamLoop ==
    /\ pc = "loop"
    /\ route = "stream"
    /\ IF i < totalChunks
       THEN IF ~CheckStreamStatus
            THEN /\ isStreamClosed' = TRUE
                 /\ pc' = "afterLoop"
                 /\ NoEvents
            ELSE /\ SendEvents(<< Event("chunk-start", i + 1, "", << >>, << >>, << >>) >>)
                 /\ pc' = "invoke"
                 /\ UNCHANGED isStreamClosed
       ELSE /\ pc' = "afterLoop"
            /\ NoEvents
            /\ UNCHANGED isStreamClosed
    /\ UNCHANGED << inputVars, desiredSize, closeCalls, planVars, i,
                    allChunkResults, transcriptions, transcriptionText,
                    chunkText, clientVars, waitTime, inFlight, response,
                    outcome, failCause, callsFor, failedChunks, discVars,
                    histVars, callsAfterDisc >>

\* transcribeAudio returned chunkText
StreamChunkSuccess ==
    /\ pc = "chunkSuccess"
    /\ route = "stream"
    /\ IF Len(Trim(chunkText)) > 0
       THEN /\ transcriptions' = Append(transcriptions, Piece(i + 1, chunkText))
            /\ allChunkResults' =
                 Append(allChunkResults, ChunkResult(i + 1, chunkText, "success"))
            /\ SendEvents(<< Event("chunk-complete", i + 1, "success", chunkText,
                                   << >>, << >>) >>)
       ELSE /\ NoEvents
            /\ UNCHANGED << transcriptions, allChunkResults >>
    /\ pc' = "waitCheck"
    /\ UNCHANGED << inputVars, desiredSize, isStreamClosed, closeCalls, planVars,
                    i, transcriptionText, chunkText, clientVars, waitTime,
                    inFlight, response, outcome, failCause, callsFor,
                    failedChunks, discVars, histVars, callsAfterDisc >>

\* transcribeAudio threw: the catch of the chunk
StreamChunkCatchRethrow ==
    /\ pc = "chunkCatch"
    /\ route = "stream"
    /\ pc' = "outerCatch"
    /\ failCause' = "transcribe"
    /\ NoEvents
    /\ UNCHANGED << inputVars, desiredSize, isStreamClosed, closeCalls, planVars,
                    i, allChunkResults, transcriptions, transcriptionText,
                    chunkText, clientVars, waitTime, inFlight, response,
                    outcome, callsFor, failedChunks, discVars, histVars,
                    callsAfterDisc >>

StreamChunkCatchNoResult ==
    /\ pc = "chunkCatch"
    /\ route = "stream"
    /\ transcriptions' = Append(transcriptions, Piece(i + 1, ErrorPlaceholder))
    /\ SendEvents(<< Event("chunk-error", i + 1, "error", ErrorPlaceholder,
                           << >>, << >>) >>)
    /\ pc' = "waitCheck"
    /\ UNCHANGED << inputVars, desiredSize, isStreamClosed, closeCalls, planVars,
                    i, allChunkResults, transcriptionText, chunkText, clientVars,
                    waitTime, inFlight, response, outcome, failCause, callsFor,
                    failedChunks, discVars, histVars, callsAfterDisc >>

StreamChunkCatch ==
    /\ pc = "chunkCatch"
    /\ route = "stream"
    /\ transcriptions' = Append(transcriptions, Piece(i + 1, ErrorPlaceholder))
    /\ allChunkResults' =
         Append(allChunkResults, ChunkResult(i + 1, ErrorPlaceholder, "error"))
    /\ SendEvents(<< Event("chunk-error", i + 1, "error", ErrorPlaceholder,
                           << >>, << >>) >>)
    /\ pc' = "waitCheck"
    /\ UNCHANGED << inputVars, desiredSize, isStreamClosed, closeCalls, planVars,
                    i, transcriptionText, chunkText, clientVars, waitTime,
                    inFlight, response, outcome, failCause, callsFor,
                    failedChunks, discVars, histVars, callsAfterDisc >>

\* i++ of the for loop
NextIndexSame == i
NextIndex == i + 1

\* after the result of a chunk: the waiting event of every chunk but the last
StreamWaitCheck ==
    /\ pc = "waitCheck"
    /\ route = "stream"
    /\ IF i < totalChunks - 1
       THEN IF ~CheckStreamStatus
            THEN /\ isStreamClosed' = TRUE
                 /\ pc' = "afterLoop"
                 /\ NoEvents
                 /\ UNCHANGED << i, waitTime, ticks >>
            ELSE /\ SendEvents(<< PlainEvent("waiting") >>)
                 /\ waitTime' = 0
                 /\ ticks' = 0
                 /\ pc' = "waitLoop"
                 /\ UNCHANGED << i, isStreamClosed >>
       ELSE /\ i' = NextIndex
            /\ pc' = "loop"
            /\ NoEvents
            /\ UNCHANGED << isStreamClosed, waitTime, ticks >>
    /\ UNCHANGED << inputVars, desiredSize, closeCalls, planVars,
                    allChunkResults, transcriptions, transcriptionText,
                    chunkText, clientVars, inFlight, response, outcome,
                    failCause, callsFor, failedChunks, discVars,
                    ticksAfterDisc, callsAfterDisc >>

\* while (waitTime < 15000 && checkStreamStatus())
WaitLoopCondNoCheck == waitTime < WaitMs
WaitLoopCond == waitTime < WaitMs /\ CheckStreamStatus

StreamWaitLoop ==
    /\ pc = "waitLoop"
    /\ route = "stream"
    /\ isStreamClosed' = IF waitTime < WaitMs THEN FlagAfterCheck ELSE isStreamClosed
    /\ pc' = IF WaitLoopCond THEN "waitTick" ELSE "afterWait"
    /\ UNCHANGED << inputVars, desiredSize, events, closeCalls, planVars, i,
                    allChunkResults, transcriptions, transcriptionText,
                    chunkText, clientVars, waitTime, inFlight, response,
                    outcome, failCause, callsFor, failedChunks, discVars,
                    histVars, callsAfterDisc, dropped >>

\* the 1-second timer of the wait loop fires
StreamWaitTick ==
    /\ pc = "waitTick"
    /\ route = "stream"
    /\ waitTime' = waitTime + TickMs
    /\ ticks' = ticks + 1
    /\ ticksAfterDisc' = IF desiredSize = Null THEN ticksAfterDisc + 1
                         ELSE ticksAfterDisc
    /\ pc' = "waitLoop"
    /\ UNCHANGED << inputVars, desiredSize, isStreamClosed, events, closeCalls,
                    planVars, i, allChunkResults, transcriptions,
                    transcriptionText, chunkText, clientVars, inFlight,
                    response, outcome, failCause, callsFor, failedChunks,
                    discVars, callsAfterDisc, dropped >>

\* the check after the wait loop, then the next turn of the for loop
StreamAfterWait ==
    /\ pc = "afterWait"
    /\ route = "stream"
    /\ IF ~CheckStreamStatus
       THEN /\ isStreamClosed' = TRUE
            /\ pc' = "afterLoop"
            /\ UNCHANGED i
       ELSE /\ i' = NextIndex
            /\ pc' = "loop"
            /\ UNCHANGED isStreamClosed
    /\ UNCHANGED << inputVars, desiredSize, events, closeCalls, planVars,
                    allChunkResults, transcriptions, transcriptionText,
                    chunkText, clientVars, waitTime, inFlight, response,
                    outcome, failCause, callsFor, failedChunks, discVars,
                    histVars, callsAfterDisc, dropped >>

StreamFinishIntoCatch ==
    /\ pc = "finish"
    /\ route = "stream"
    /\ isStreamClosed' = FlagAfterCheck
    /\ IF CheckStreamStatus
       THEN /\ SendEvents(<< Event("complete", 0, "", << >>, transcriptionText,
                                   allChunkResults) >>)
            /\ outcome' = "completed"
       ELSE /\ NoEvents
            /\ outcome' = "cancelled"
    /\ closeCalls' = IF ~FlagAfterCheck THEN closeCalls + 1 ELSE closeCalls
    /\ pc' = "outerCatch"
    /\ UNCHANGED << inputVars, desiredSize, planVars, i, allChunkResults,
                    transcriptions, transcriptionText, chunkText, clientVars,
                    waitTime, inFlight, response, failCause, callsFor,
                    failedChunks, discVars, histVars, callsAfterDisc >>

\* the complete event (only to a live stream) and the close of the stream
StreamFinish ==
    /\ pc = "finish"
    /\ route = "stream"
    /\ isStreamClosed' = FlagAfterCheck
    /\ IF CheckStreamStatus
       THEN /\ SendEvents(<< Event("complete", 0, "", << >>, transcriptionText,
                                   allChunkResults) >>)
            /\ outcome' = "completed"
       ELSE /\ NoEvents
            /\ outcome' = "cancelled"
    /\ closeCalls' = IF ~FlagAfterCheck THEN closeCalls + 1 ELSE closeCalls
    /\ pc' = "done"
    /\ UNCHANGED << inputVars, desiredSize, planVars, i, allChunkResults,
                    transcriptions, transcriptionText, chunkText, clientVars,
                    waitTime, inFlight, response, failCause, callsFor,
                    failedChunks, discVars, histVars, callsAfterDisc >>

StreamCatchNoClose ==
    /\ pc = "outerCatch"
    /\ route = "stream"
    /\ SendEvents(<< PlainEvent("error") >>)
    /\ closeCalls' = closeCalls
    /\ outcome' = "failed"
    /\ pc' = "done"
    /\ UNCHANGED << inputVars, desiredSize, isStreamClosed, planVars, i,
                    allChunkResults, transcriptions, transcriptionText,
                    chunkText, clientVars, waitTime, inFlight, response,
                    failCause, callsFor, failedChunks, discVars, histVars,
                    callsAfterDisc >>

\* the outer catch: the error event and the close of the stream
StreamCatch ==
    /\ pc = "outerCatch"
    /\ route = "stream"
    /\ SendEvents(<< PlainEvent("error") >>)
    /\ closeCalls' = closeCalls + 1
    /\ outcome' = "failed"
    /\ pc' = "done"
    /\ UNCHANGED << inputVars, desiredSize, isStreamClosed, planVars, i,
                    allChunkResults, transcriptions, transcriptionText,
                    chunkText, clientVars, waitTime, inFlight, response,
                    failCause, callsFor, failedChunks, discVars, histVars,
                    callsAfterDisc >>


\* --------------------------------------------------------- /api/transcribe
\* POST of the non-streaming route from the file read to the first call
\* chunks.length: chunkAudio is a function of the buffer, so the second
\* route of a paired upload gets the chunk count the first one got
PlannedCounts == IF Paired /\ ret.phase = 2 THEN {ret.chunks} ELSE 1..MaxChunks

RouteRead ==
    /\ pc = "read"
    /\ route = "json"
    /\ IF ~readOk
       THEN /\ pc' = "outerCatch"
            /\ failCause' = "read"
            /\ UNCHANGED planVars
       ELSE LET minutes == EstimatedMinutes(fileSize) IN
            /\ estimatedMinutes' = minutes
            /\ failCause' = failCause
            /\ IF minutes > SplitThresholdMinutes
               THEN \E n \in PlannedCounts :
                      /\ chunkDuration' = getOptimalChunkSize(fileSize, minutes)
                      /\ totalChunks' = n
                      /\ pc' = "loop"
               ELSE /\ pc' = "invoke"
                    /\ UNCHANGED << chunkDuration, totalChunks >>
    /\ UNCHANGED << inputVars, desiredSize, isStreamClosed, events, closeCalls,
                    i, allChunkResults, transcriptions, transcriptionText,
                    chunkText, clientVars, waitTime, inFlight, response,
                    outcome, callsFor, failedChunks, discVars, histVars,
                    callsAfterDisc, dropped >>

RouteLoop ==
    /\ pc = "loop"
    /\ route = "json"
    /\ pc' = IF i < totalChunks THEN "invoke" ELSE "afterLoop"
    /\ UNCHANGED << inputVars, desiredSize, isStreamClosed, events, closeCalls,
                    planVars, i, allChunkResults, transcriptions,
                    transcriptionText, chunkText, clientVars, waitTime,
                    inFlight, response, outcome, failCause, callsFor,
                    failedChunks, discVars, histVars, callsAfterDisc, dropped >>

\* after the try/catch of a chunk: the 15-second delay of every chunk but
\* the last
RouteAfterChunk ==
    IF i < totalChunks - 1
    THEN /\ pc' = "sleep"
         /\ ticks' = 0
         /\ UNCHANGED i
    ELSE /\ i' = NextIndex
         /\ pc' = "loop"
         /\ UNCHANGED ticks

RouteChunkSuccess ==
    /\ pc = "chunkSuccess"
    /\ route = "json"
    /\ transcriptions' = IF Len(Trim(chunkText)) > 0
                         THEN Append(transcriptions, Piece(i + 1, chunkText))
                         ELSE transcriptions
    /\ RouteAfterChunk
    /\ UNCHANGED << inputVars, desiredSize, isStreamClosed, events, closeCalls,
                    planVars, allChunkResults, transcriptionText, chunkText,
                    clientVars, waitTime, inFlight, response, outcome,
                    failCause, callsFor, failedChunks, discVars,
                    ticksAfterDisc, callsAfterDisc, dropped >>

RouteChunkCatchNoHeader ==
    /\ pc = "chunkCatch"
    /\ route = "json"
    /\ transcriptions' = Append(transcriptions, << Seg("body", 0, ErrorPlaceholder) >>)
    /\ RouteAfterChunk
    /\ UNCHANGED << inputVars, desiredSize, isStreamClosed, events, closeCalls,
                    planVars, allChunkResults, transcriptionText, chunkText,
                    clientVars, waitTime, inFlight, response, outcome,
                    failCause, callsFor, failedChunks, discVars,
                    ticksAfterDisc, callsAfterDisc, dropped >>

RouteChunkCatch ==
    /\ pc = "chunkCatch"
    /\ route = "json"
    /\ transcriptions' = Append(transcriptions, Piece(i + 1, ErrorPlaceholder))
    /\ RouteAfterChunk
    /\ UNCHANGED << inputVars, desiredSize, isStreamClosed, events, closeCalls,
                    planVars, allChunkResults, transcriptionText, chunkText,
                    clientVars, waitTime, inFlight, response, outcome,
                    failCause, callsFor, failedChunks, discVars,
                    ticksAfterDisc, callsAfterDisc, dropped >>

\* the setTimeout of 15000 ms fires
RouteSleep ==
    /\ pc = "sleep"
    /\ route = "json"
    /\ ticks' = ticks + (WaitMs \div TickMs)
    /\ i' = NextIndex
    /\ pc' = "loop"
    /\ UNCHANGED << inputVars, desiredSize, isStreamClosed, events, closeCalls,
                    planVars, allChunkResults, transcriptions,
                    transcriptionText, chunkText, clientVars, waitTime,
                    inFlight, response, outcome, failCause, callsFor,
                    failedChunks, discVars, ticksAfterDisc, callsAfterDisc,
                    dropped >>

\* NextResponse.json({text, ...})
RouteRespond ==
    /\ pc = "finish"
    /\ route = "json"
    /\ response' = 200
    /\ outcome' = "completed"
    /\ pc' = "done"
    /\ UNCHANGED << inputVars, desiredSize, isStreamClosed, events, closeCalls,
                    planVars, i, allChunkResults, transcriptions,
                    transcriptionText, chunkText, clientVars, waitTime,
                    inFlight, failCause, callsFor, failedChunks, discVars,
                    histVars, callsAfterDisc, dropped >>

\* the outer catch: NextResponse.json({error}, {status: 500})
RouteCatch ==
    /\ pc = "outerCatch"
    /\ route = "json"
    /\ response' = 500
    /\ outcome' = "failed"
    /\ pc' = "done"
    /\ UNCHANGED << inputVars, desiredSize, isStreamClosed, events, closeCalls,
                    planVars, i, allChunkResults, transcriptions,
                    transcriptionText, chunkText, clientVars, waitTime,
                    inFlight, failCause, callsFor, failedChunks, discVars,
                    histVars, callsAfterDisc, dropped >>

\* ------------------------------------------------------------ specification
Next ==
    \/ Post
    \/ TranscribeAudio
    \/ Attempt
    \/ ProviderReturn
    \/ Backoff
    \/ WholeFileDone
    \/ AfterLoop
    \/ Disconnect
    \/ StreamRead
    \/ StreamLoop
    \/ StreamChunkSuccess
    \/ StreamChunkCatch
    \/ StreamWaitCheck
    \/ StreamWaitLoop
    \/ StreamWaitTick
    \/ StreamAfterWait
    \/ StreamFinish
    \/ StreamCatch
    \/ RouteRead
    \/ RouteLoop
    \/ RouteChunkSuccess
    \/ RouteChunkCatch
    \/ RouteSleep
    \/ RouteRespond
    \/ RouteCatch

Spec == Init /\ [][Next]_vars

\* a streaming session whose consumer stays connected and whose awaits all
\* settle: the event loop runs every continuation that is ready
StreamInit == Init /\ route = "stream"

ConnectedNext ==
    \/ Post
    \/ TranscribeAudio
    \/ Attempt
    \/ ProviderReturn
    \/ Backoff
    \/ WholeFileDone
    \/ AfterLoop
    \/ StreamRead
    \/ StreamLoop
    \/ StreamChunkSuccess
    \/ StreamChunkCatch
    \/ StreamWaitCheck
    \/ StreamWaitLoop
    \/ StreamWaitTick
    \/ StreamAfterWait
    \/ StreamFinish
    \/ StreamCatch

FairStream == StreamInit /\ [][ConnectedNext]_vars /\ WF_vars(ConnectedNext)

\* ---- the same upload on both routes
\* uploads of a paired session: one below the split threshold, one above
PairSizes == {SmallSize, 9600000}

PairInit ==
    /\ route = "stream"
    /\ call = Upload(DefaultName)
    /\ fileSize \in PairSizes
    /\ readOk \in BOOLEAN
    /\ ret \in {[fn |-> "pair", phase |-> 1, scripts |-> f, chunks |-> 0,
                 completed |-> FALSE, text |-> << >>] :
                   f \in [1..MaxChunks -> Scripts]}
    /\ pc = "post"
    /\ desiredSize = Open
    /\ isStreamClosed = FALSE
    /\ events = << >>
    /\ closeCalls = 0
    /\ estimatedMinutes = 0
    /\ chunkDuration = 0
    /\ totalChunks = 0
    /\ i = 0
    /\ allChunkResults = << >>
    /\ transcriptions = << >>
    /\ transcriptionText = << >>
    /\ chunkText = << >>
    /\ modelIdx = 0
    /\ retryCount = 0
    /\ lastError = "none"
    /\ waitTime = 0
    /\ inFlight = 0
    /\ response = 0
    /\ outcome = "running"
    /\ failCause = "none"
    /\ callsFor = [j \in 0..MaxChunks |-> 0]
    /\ failedChunks = {}
    /\ discPc = "none"
    /\ discChunk = 0
    /\ ticks = 0
    /\ ticksAfterDisc = 0
    /\ callsAfterDisc = 0
    /\ dropped = 0

\* the text field of the complete event the stream delivered
CompleteText ==
    IF events # << >> /\ events[Len(events)].type = "complete"
    THEN events[Len(events)].doc
    ELSE << >>

\* the streaming session is over: what it delivered is kept and the same
\* upload is posted to /api/transcribe
PostAgain ==
    /\ Paired
    /\ ret.phase = 1
    /\ route = "stream"
    /\ pc = "done"
    /\ ret' = [ret EXCEPT !.phase = 2,
                          !.chunks = totalChunks,
                          !.completed = (outcome = "completed"),
                          !.text = CompleteText]
    /\ route' = "json"
    /\ pc' = "post"
    /\ events' = << >>
    /\ closeCalls' = 0
    /\ estimatedMinutes' = 0
    /\ chunkDuration' = 0
    /\ totalChunks' = 0
    /\ i' = 0
    /\ allChunkResults' = << >>
    /\ transcriptions' = << >>
    /\ transcriptionText' = << >>
    /\ chunkText' = << >>
    /\ modelIdx' = 0
    /\ retryCount' = 0
    /\ lastError' = "none"
    /\ waitTime' = 0
    /\ response' = 0
    /\ outcome' = "running"
    /\ failCause' = "none"
    /\ callsFor' = [j \in 0..MaxChunks |-> 0]
    /\ failedChunks' = {}
    /\ ticks' = 0
    /\ UNCHANGED << fileSize, readOk, call, desiredSize, isStreamClosed,
                    inFlight, discVars, ticksAfterDisc, callsAfterDisc, dropped >>

PairNext ==
    \/ ConnectedNext
    \/ PostAgain
    \/ RouteRead
    \/ RouteLoop
    \/ RouteChunkSuccess
    \/ RouteChunkCatch
    \/ RouteSleep
    \/ RouteRespond
    \/ RouteCatch

SpecPair == PairInit /\ [][PairNext]_vars

TypeOK ==
    /\ route \in Routes
    /\ desiredSize \in {Open, Null}
    /\ inFlight \in 0..1
    /\ i \in 0..MaxChunks
    /\ retryCount \in 0..maxRetries
    /\ modelIdx \in 0..NumModels
    /\ waitTime \in 0..WaitMs

\* ------------------------------------------------------ planning functions
\* The functions the planning stretch of both routes is made of, each taken
\* on its own: SpecPlan draws a call from Calls and applies the function.

getMimeType(extension) ==
    CASE extension = "mp3" -> "audio/mpeg"
      [] extension = "m4a" -> "audio/mp4"
      [] extension = "wav" -> "audio/wav"
      [] extension = "flac" -> "audio/flac"
      [] extension = "ogg" -> "audio/ogg"
      [] extension = "webm" -> "audio/webm"
      [] OTHER -> "audio/mpeg"

\* bitRateEstimates[mimeType] || 128
BitRate(mimeType) ==
    CASE mimeType = "audio/mpeg" -> 128
      [] mimeType = "audio/mp4" -> 128
      [] mimeType = "audio/wav" -> 1411
      [] mimeType = "audio/flac" -> 700
      [] mimeType = "audio/ogg" -> 128
      [] mimeType = "audio/webm" -> 128
      [] OTHER -> 128

\* the text estimateAudioDuration returns, as the numbers it prints: hours,
\* minutes and seconds ("hms"), minutes and seconds ("ms") or seconds ("s")
estimateAudioDurationMinutesNotReduced(size, mimeType) ==
    LET durationSeconds == Round(size * 8, BitRate(mimeType) * 1000)
        hours == durationSeconds \div 3600
        minutes == durationSeconds \div 60
        seconds == durationSeconds % 60
    IN  [form |-> IF hours > 0 THEN "hms" ELSE IF minutes > 0 THEN "ms" ELSE "s",
         hours |-> hours, minutes |-> minutes, seconds |-> seconds]

estimateAudioDuration(size, mimeType) ==
    LET durationSeconds == Round(size * 8, BitRate(mimeType) * 1000)
        hours == durationSeconds \div 3600
        minutes == (durationSeconds % 3600) \div 60
        seconds == durationSeconds % 60
    IN  [form |-> IF hours > 0 THEN "hms" ELSE IF minutes > 0 THEN "ms" ELSE "s",
         hours |-> hours, minutes |-> minutes, seconds |-> seconds]

\* the seconds a returned text stands for
SecondsOf(estimate) == estimate.hours * 3600 + estimate.minutes * 60 + estimate.seconds

\* A chunk's startTime / endTime is the quotient scale * num / den, kept as
\* its operands: (i / byteLength) * 40 * 60 has num = the offset, den = byteLength,
\* scale = 2400, and the sample offset over sampleRate has num = the offset, den = sampleRate, scale = 1.
\* Two times of one chunk list share den and scale, so they are equal exactly
\* when their nums are, which is also when the floating-point results are
\* computed from the same operands.
Time(num, den, scale) == [num |-> num, den |-> den, scale |-> scale]

\* "40 * 60": the total duration chunkByBytes assumes
AssumedTotalShort == 20 * 60
AssumedTotalSeconds == 40 * 60

RECURSIVE Gcd(_, _)
Gcd(a, b) == IF b = 0 THEN a ELSE Gcd(b, a % b)

\* Math.floor(byteLength / (40 * 60 / chunkDurationSeconds)).  The divisor is
\* 40, 20 or 8 exactly, or 40/3 rounded to a double, whose quotient still
\* floors like the exact one; the product form keeps the integers small.
ChunkSize(byteLength, chunkDurationSeconds) ==
    LET g == Gcd(AssumedTotalSeconds, chunkDurationSeconds)
    IN  (byteLength * (chunkDurationSeconds \div g)) \div (AssumedTotalSeconds \div g)

\* the chunk pushed for the slice [offset, end) of the buffer
ByteChunkOverlapping(offset, end, byteLength, index) ==
    [from |-> offset, to |-> end, bytes |-> end - offset, encoding |-> "slice",
     startTime |-> Time(IF offset > 0 THEN offset - 1 ELSE 0, byteLength, AssumedTotalSeconds),
     endTime |-> Time(end, byteLength, AssumedTotalSeconds),
     chunkIndex |-> index]

ByteChunk(offset, end, byteLength, index) ==
    [from |-> offset, to |-> end, bytes |-> end - offset, encoding |-> "slice",
     startTime |-> Time(offset, byteLength, AssumedTotalSeconds),
     endTime |-> Time(end, byteLength, AssumedTotalSeconds),
     chunkIndex |-> index]

Min(a, b) == IF a < b THEN a ELSE b

\* the chunks the for loop of chunkByBytes pushes: turn k (from 1) starts at
\* offset (k - 1) * chunkSize, and the loop takes a turn for every such
\* offset below byteLength
LoopTurns(total, step) == (total + step - 1) \div step

ByteChunksNoRemainder(byteLength, chunkSize) ==
    [k \in 1..(byteLength \div chunkSize) |->
        ByteChunk((k - 1) * chunkSize,
                  Min(k * chunkSize, byteLength), byteLength, k - 1)]

ByteChunks(byteLength, chunkSize) ==
    [k \in 1..LoopTurns(byteLength, chunkSize) |->
        ByteChunk((k - 1) * chunkSize,
                  Min(k * chunkSize, byteLength), byteLength, k - 1)]

chunkByBytesLoopInclusive(byteLength, chunkDurationSeconds) ==
    LET chunkSize == ChunkSize(byteLength, chunkDurationSeconds)
    IN  IF chunkSize = 0
        THEN [returns |-> FALSE, chunks |-> << >>]
        ELSE [returns |-> TRUE, chunks |-> ByteChunks(byteLength, chunkSize)]

\* chunkByBytes: with a chunk size of 0 the loop of a non-empty buffer never
\* advances and the function does not return
chunkByBytes(byteLength, chunkDurationSeconds) ==
    LET chunkSize == ChunkSize(byteLength, chunkDurationSeconds)
    IN  IF byteLength > 0 /\ chunkSize = 0
        THEN [returns |-> FALSE, chunks |-> << >>]
        ELSE [returns |-> TRUE,
              chunks |-> IF byteLength = 0 THEN << >>
                         ELSE ByteChunks(byteLength, chunkSize)]

\* encodeWAV: a 44-byte header and 16-bit samples of every channel
WavBytes(numberOfChannels, length) == 44 + length * numberOfChannels * 2

\* the chunk pushed for the samples [offset, endSample)
DecodedChunk(offset, endSample, sampleRate, numberOfChannels, index) ==
    [from |-> offset, to |-> endSample,
     bytes |-> WavBytes(numberOfChannels, endSample - offset),
     encoding |-> "wav",
     startTime |-> Time(offset, sampleRate, 1),
     endTime |-> Time(endSample, sampleRate, 1),
     chunkIndex |-> index]

chunkDecodedAudio(sampleRate, totalSamples, numberOfChannels, chunkDurationSeconds) ==
    LET samplesPerChunk == sampleRate * chunkDurationSeconds
    IN  [returns |-> TRUE,
         chunks |-> [k \in 1..LoopTurns(totalSamples, samplesPerChunk) |->
                        DecodedChunk((k - 1) * samplesPerChunk,
                                     Min(k * samplesPerChunk, totalSamples),
                                     sampleRate, numberOfChannels, k - 1)]]

\* chunkAudio: byte slicing without an AudioContext (always so on the
\* server) or when decoding fails, sample slicing otherwise.  audio is the
\* buffer: its byte length and what decoding it yields.
chunkAudio(hasAudioContext, audio, chunkDurationSeconds) ==
    IF ~hasAudioContext THEN chunkByBytes(audio.byteLength, chunkDurationSeconds)
    ELSE IF audio.decodes
         THEN chunkDecodedAudio(audio.sampleRate, audio.totalSamples,
                                audio.numberOfChannels, chunkDurationSeconds)
         ELSE chunkByBytes(audio.byteLength, chunkDurationSeconds)

\* the planning stretch of processAudioStream / POST for a file with the given
\* extension and size: everything it computes before the chunk loop
Planning(extension, size) ==
    LET mimeType == getMimeType(extension)
        minutes == EstimatedMinutes(size)
        isSplit == minutes > SplitThresholdMinutes
        duration == IF isSplit THEN getOptimalChunkSize(size, minutes) ELSE 0
        plan == IF isSplit THEN chunkByBytes(size, duration)
                ELSE [returns |-> TRUE, chunks |-> << >>]
    IN  [fn |-> "planning",
         mimeType |-> mimeType,
         estimatedDuration |-> estimateAudioDuration(size, mimeType),
         estimatedMinutes |-> minutes,
         split |-> isSplit,
         chunkDuration |-> duration,
         returns |-> plan.returns,
         chunks |-> plan.chunks]

\* export const maxDuration of the two routes, in seconds
RouteMaxDuration == 300
StreamMaxDuration == 900

\* the waiting a route does between the chunks of a plan of n chunks, in
\* seconds: one delay after every chunk but the last
MandatoryWaitSeconds(n) == (n - 1) * (WaitMs \div TickMs)

\* transcribeAudio(chunkBuffer, 'audio/wav'): the format both routes declare
\* for every chunk of a plan
ChunkMimeType == "audio/wav"

\* ---- the calls SpecPlan draws from
Extensions == {"mp3", "m4a", "wav", "flac", "ogg", "webm", "aac"}
MimeLabels == {getMimeType(e) : e \in Extensions} \cup {"audio/aac", ""}
ChunkDurations == {60, 120, 180, 300}

\* sizes of uploads: empty, tiny, the sizes of the sessions, one byte more
\* than 40 minutes at 128 kbps, and the largest upload
PlanSizes == FileSizes \cup {0, 1, 16000, 38400001, MaxFileSize}

\* byte lengths handed to chunkAudio, small ones included
BufferSizes == PlanSizes \cup {13, 14, 39, 40, 41, 79, 80, 81, 2400}

MinuteRange == 0..(EstimatedMinutes(MaxFileSize) + 1)

\* decoded audio: sample rate, length in samples, channels
DecodedAudios ==
    {[byteLength |-> 9600000, decodes |-> TRUE, sampleRate |-> r,
      totalSamples |-> n, numberOfChannels |-> c] :
        r \in {8000, 44100},
        n \in {0, 1, 479999, 480000, 480001, 2646000, 26460000, 26460001},
        c \in {1, 2}}

UndecodedAudios ==
    {[byteLength |-> b, decodes |-> FALSE, sampleRate |-> 0,
      totalSamples |-> 0, numberOfChannels |-> 0] : b \in BufferSizes}

Calls ==
    {[fn |-> "estimateAudioDuration", size |-> z, mimeType |-> m] :
        z \in PlanSizes, m \in MimeLabels}
    \cup {[fn |-> "getOptimalChunkSize", fileSizeBytes |-> z, minutes |-> m] :
        z \in {0, MaxFileSize}, m \in MinuteRange}
    \cup {[fn |-> "chunkAudio", hasAudioContext |-> h, audio |-> a, duration |-> d] :
        h \in BOOLEAN, a \in DecodedAudios \cup UndecodedAudios, d \in ChunkDurations}
    \cup {[fn |-> "planning", extension |-> e, size |-> z] :
        e \in Extensions, z \in PlanSizes}

sessionVars ==
    << route, fileSize, readOk, pc, desiredSize, isStreamClosed, events,
       closeCalls, estimatedMinutes, chunkDuration, totalChunks, i,
       allChunkResults, transcriptions, transcriptionText, chunkText,
       modelIdx, retryCount, lastError, waitTime, inFlight, response,
       outcome, failCause, callsFor, failedChunks, discPc, discChunk,
       ticks, ticksAfterDisc, callsAfterDisc, dropped >>

PlanInit ==
    /\ call \in Calls
    /\ ret = Pending
    /\ route = "stream"
    /\ fileSize = 0
    /\ readOk = TRUE
    /\ pc = "idle"
    /\ desiredSize = Open
    /\ isStreamClosed = FALSE
    /\ events = << >>
    /\ closeCalls = 0
    /\ estimatedMinutes = 0
    /\ chunkDuration = 0
    /\ totalChunks = 0
    /\ i = 0
    /\ allChunkResults = << >>
    /\ transcriptions = << >>
    /\ transcriptionText = << >>
    /\ chunkText = << >>
    /\ modelIdx = 0
    /\ retryCount = 0
    /\ lastError = "none"
    /\ waitTime = 0
    /\ inFlight = 0
    /\ response = 0
    /\ outcome = "running"
    /\ failCause = "none"
    /\ callsFor = [j \in 0..MaxChunks |-> 0]
    /\ failedChunks = {}
    /\ discPc = "none"
    /\ discChunk = 0
    /\ ticks = 0
    /\ ticksAfterDisc = 0
    /\ callsAfterDisc = 0
    /\ dropped = 0

CallEstimateAudioDuration ==
    /\ call.fn = "estimateAudioDuration"
    /\ ret = Pending
    /\ ret' = [fn |-> "estimateAudioDuration",
               value |-> estimateAudioDuration(call.size, call.mimeType)]
    /\ UNCHANGED << call, sessionVars >>

CallGetOptimalChunkSize ==
    /\ call.fn = "getOptimalChunkSize"
    /\ ret = Pending
    /\ ret' = [fn |-> "getOptimalChunkSize",
               value |-> getOptimalChunkSize(call.fileSizeBytes, call.minutes)]
    /\ UNCHANGED << call, sessionVars >>

CallChunkAudio ==
    /\ call.fn = "chunkAudio"
    /\ ret = Pending
    /\ LET result == chunkAudio(call.hasAudioContext, call.audio, call.duration)
       IN  ret' = [fn |-> "chunkAudio", returns |-> result.returns,
                   chunks |-> result.chunks]
    /\ UNCHANGED << call, sessionVars >>

CallPlanning ==
    /\ call.fn = "planning"
    /\ ret = Pending
    /\ ret' = Planning(call.extension, call.size)
    /\ UNCHANGED << call, sessionVars >>

PlanNext ==
    \/ CallEstimateAudioDuration
    \/ CallGetOptimalChunkSize
    \/ CallChunkAudio
    \/ CallPlanning

SpecPlan == PlanInit /\ [][PlanNext]_vars

\* ------------------------------------------- transcribeAudio on its own
\* One invocation of transcribeAudio, as the routes make it: on the whole
\* file of an unsplit session under the MIME type of its name, or on a chunk
\* of a split session under 'audio/wav'.  The payloads include the empty
\* file, the one-byte last chunk of a byte-sliced file and sizes around 1 KB.
WholeFileCalls ==
    {[fn |-> "transcribeAudio", bytes |-> b, mimeType |-> getMimeType(e)] :
        b \in {0, 1023, 1024, SmallSize}, e \in {"mp3", "flac"}}
ChunkCalls ==
    {[fn |-> "transcribeAudio", bytes |-> b, mimeType |-> ChunkMimeType] :
        b \in {1, 1023, 1024, 960000}}

ClientInit ==
    /\ \/ /\ call \in WholeFileCalls
          /\ fileSize = SmallSize
          /\ estimatedMinutes = EstimatedMinutes(SmallSize)
          /\ chunkDuration = 0
          /\ totalChunks = 0
       \/ /\ call \in ChunkCalls
          /\ fileSize = 38400001
          /\ estimatedMinutes = EstimatedMinutes(38400001)
          /\ chunkDuration = getOptimalChunkSize(38400001, EstimatedMinutes(38400001))
          /\ totalChunks = 1
    /\ ret = NoHistory
    /\ route \in Routes
    /\ readOk = TRUE
    /\ pc = "invoke"
    /\ desiredSize = Open
    /\ isStreamClosed = FALSE
    /\ events = << >>
    /\ closeCalls = 0
    /\ i = 0
    /\ allChunkResults = << >>
    /\ transcriptions = << >>
    /\ transcriptionText = << >>
    /\ chunkText = << >>
    /\ modelIdx = 0
    /\ retryCount = 0
    /\ lastError = "none"
    /\ waitTime = 0
    /\ inFlight = 0
    /\ response = 0
    /\ outcome = "running"
    /\ failCause = "none"
    /\ callsFor = [j \in 0..MaxChunks |-> 0]
    /\ failedChunks = {}
    /\ discPc = "none"
    /\ discChunk = 0
    /\ ticks = 0
    /\ ticksAfterDisc = 0
    /\ callsAfterDisc = 0
    /\ dropped = 0

ClientNext ==
    \/ TranscribeAudio
    \/ Attempt
    \/ ProviderReturn
    \/ Backoff

SpecClient == ClientInit /\ [][ClientNext]_vars

\* every provider call settles and every timer fires
FairClient == SpecClient /\ WF_vars(ClientNext)

\* ------------------------------------------------------------------ client
\* handleStreamEvent of the page, as far as liveTranscript goes: a
\* chunk-complete event appends its text under the header of its time range,
\* after "\n\n" unless the transcript is still empty; no other event touches
\* it.  live is the transcript before the event.
handleStreamEventNoSeparator(live, e) ==
    IF e.type = "chunk-complete"
    THEN live \o << Seg("header", e.chunkIndex, << >>), Seg("body", 0, e.text) >>
    ELSE live

handleStreamEvent(live, e) ==
    IF e.type = "chunk-complete"
    THEN LET timestampedText ==
                 << Seg("header", e.chunkIndex, << >>), Seg("body", 0, e.text) >>
         IN  IF live # << >> THEN live \o Separator \o timestampedText
             ELSE timestampedText
    ELSE live

\* liveTranscript once the first k events of the stream were handled, from
\* the empty transcript handleUpload sets
RECURSIVE LiveTranscript(_)
LiveTranscript(k) ==
    IF k = 0 THEN << >> ELSE handleStreamEvent(LiveTranscript(k - 1), events[k])

\* ------------------------------------------------------ the stream reader
\* The reader loop of handleStreamingUpload taken on its own (specification
\* SpecReader).  The text on the wire is a sequence of atoms: every line is
\* two atoms (its two halves) followed by a newline atom, so a read can end
\* between two lines and in the middle of one.  An atom carries the content
\* of its line and, as an observation, the event it comes from.
NewLine == [nl |-> TRUE, content |-> "", part |-> 0, src |-> 0]
Half(content, part, src) == [nl |-> FALSE, content |-> content, part |-> part, src |-> src]
EventLine(type) == [kind |-> "event", type |-> type, payload |-> ""]
DataLine(payload) == [kind |-> "data", type |-> "", payload |-> payload]

\* sendEvent: "event: <type>\ndata: <json>\n\n", seven atoms
Message(e, src) ==
    << Half(EventLine(e.type), 1, src), Half(EventLine(e.type), 2, src), NewLine,
       Half(DataLine(e.data), 1, src), Half(DataLine(e.data), 2, src), NewLine,
       NewLine >>

\* the messages of a list of events, one after the other
Wire(list) ==
    [k \in 1..(7 * Len(list)) |->
        Message(list[((k - 1) \div 7) + 1], ((k - 1) \div 7) + 1)[((k - 1) % 7) + 1]]

\* buffer.split('\n'): the pieces between the newlines, the last one being
\* what follows the last newline
NewLinesIn(buf) == {k \in 1..Len(buf) : buf[k].nl}
NthNewLine(buf, n) ==
    CHOOSE k \in NewLinesIn(buf) : Cardinality({q \in NewLinesIn(buf) : q <= k}) = n
SplitLines(buf) ==
    LET count == Cardinality(NewLinesIn(buf))
        from(n) == IF n = 1 THEN 1 ELSE NthNewLine(buf, n - 1) + 1
        to(n) == IF n = count + 1 THEN Len(buf) ELSE NthNewLine(buf, n) - 1
    IN  [n \in 1..(count + 1) |-> SubSeq(buf, from(n), to(n))]

\* a line as a string: equal lines have equal texts
TextOf(line) == [k \in 1..Len(line) |-> [content |-> line[k].content, part |-> line[k].part]]
\* lines.indexOf(line): the first line with the same text
IndexOf(body, line) == CHOOSE k \in 1..Len(body) :
                          /\ TextOf(body[k]) = TextOf(line)
                          /\ \A q \in 1..(k - 1) : TextOf(body[q]) # TextOf(line)
IndexOfLine(body, n) == IndexOf(body, body[n])

\* line.startsWith('event: ') / nextLine && nextLine.startsWith('data: ')
IsEventLine(line) == line # << >> /\ line[1].content.kind = "event"
IsDataLine(line) == line # << >> /\ line[1].content.kind = "data"

\* the turns of the for loop that call handleStreamEvent
Dispatching(body) ==
    {n \in 1..Len(body) :
        /\ IsEventLine(body[n])
        /\ IndexOfLine(body, n) + 1 <= Len(body)
        /\ IsDataLine(body[IndexOfLine(body, n) + 1])}
NthDispatching(body, n) ==
    CHOOSE k \in Dispatching(body) : Cardinality({q \in Dispatching(body) : q <= k}) = n
\* the calls of handleStreamEvent one turn of the while loop makes, in order:
\* the type of the event line, the data of the line after the first line
\* equal to it, and (as an observation) the event the event line came from
Dispatches(body) ==
    [n \in 1..Cardinality(Dispatching(body)) |->
        LET at == NthDispatching(body, n)
        IN  [type |-> body[at][1].content.type,
             data |-> body[IndexOfLine(body, at) + 1][1].content.payload,
             src |-> body[at][1].src]]

\* the events a streaming session enqueues in one synchronous stretch
ServerEvent(type, data) == [type |-> type, data |-> data]
ReaderStreams ==
    { << ServerEvent("start", "file"), ServerEvent("info", "long audio"),
         ServerEvent("info", "chunking"), ServerEvent("chunks-created", "plan") >>,
      << ServerEvent("start", "file"), ServerEvent("info", "short audio"),
         ServerEvent("complete", "text") >>,
      << ServerEvent("chunk-start", "1"), ServerEvent("chunk-complete", "1"),
         ServerEvent("waiting", "15") >> }

ReaderInit ==
    /\ call \in {[fn |-> "read", sent |-> list, wire |-> Wire(list)] : list \in ReaderStreams}
    /\ ret = [fn |-> "reader", pos |-> 0, buffer |-> << >>, dispatched |-> << >>,
              done |-> FALSE]
    /\ route = "stream"
    /\ fileSize = 0
    /\ readOk = TRUE
    /\ pc = "idle"
    /\ desiredSize = Open
    /\ isStreamClosed = FALSE
    /\ events = << >>
    /\ closeCalls = 0
    /\ estimatedMinutes = 0
    /\ chunkDuration = 0
    /\ totalChunks = 0
    /\ i = 0
    /\ allChunkResults = << >>
    /\ transcriptions = << >>
    /\ transcriptionText = << >>
    /\ chunkText = << >>
    /\ modelIdx = 0
    /\ retryCount = 0
    /\ lastError = "none"
    /\ waitTime = 0
    /\ inFlight = 0
    /\ response = 0
    /\ outcome = "running"
    /\ failCause = "none"
    /\ callsFor = [j \in 0..MaxChunks |-> 0]
    /\ failedChunks = {}
    /\ discPc = "none"
    /\ discChunk = 0
    /\ ticks = 0
    /\ ticksAfterDisc = 0
    /\ callsAfterDisc = 0
    /\ dropped = 0

\* one turn of the while loop: reader.read() resolves with the next bytes of
\* the wire, however many; the lines completed so far are walked and the
\* rest stays in the buffer
ReaderRead ==
    /\ call.fn = "read"
    /\ ~ret.done
    /\ ret.pos < Len(call.wire)
    /\ \E m \in (ret.pos + 1)..Len(call.wire) :
          LET lines == SplitLines(ret.buffer \o SubSeq(call.wire, ret.pos + 1, m))
              body == SubSeq(lines, 1, Len(lines) - 1)
          IN  ret' = [ret EXCEPT !.pos = m,
                                 !.buffer = lines[Len(lines)],
                                 !.dispatched = @ \o Dispatches(body)]
    /\ UNCHANGED << call, sessionVars >>

\* reader.read() resolves with done: the loop ends
ReaderDone ==
    /\ call.fn = "read"
    /\ ~ret.done
    /\ ret.pos = Len(call.wire)
    /\ ret' = [ret EXCEPT !.done = TRUE]
    /\ UNCHANGED << call, sessionVars >>

ReaderNext == ReaderRead \/ ReaderDone

SpecReader == ReaderInit /\ [][ReaderNext]_vars

\* ------------------------------------------------------------------ claims
IsResultEvent(e) == e.type \in {"chunk-complete", "chunk-error"}
EventIndices(type) == {k \in 1..Len(events) : events[k].type = type}
HasEvent(type, idx) ==
    \E k \in 1..Len(events) : events[k].type = type /\ events[k].chunkIndex = idx

\* chunk j failed and its catch has run
Recorded(j) == j \in failedChunks /\ ~(pc = "chunkCatch" /\ i + 1 = j)

\* C1: a chunk whose transcription failed after every attempt gets an error
\* result (placeholder text, status "error", the chunk-error event when the
\* consumer is there to receive it), the session does not go to its failure
\* path, and a session the consumer stays with ends with every chunk of the
\* plan handed to transcribeAudio, those after the failed one included.
C1_ChunkFailureTolerated ==
    /\ \A j \in 1..MaxChunks :
         Recorded(j) =>
           /\ Len(transcriptions) >= j
           /\ transcriptions[j] = Piece(j, ErrorPlaceholder)
           /\ pc # "outerCatch"
           /\ outcome # "failed"
           /\ route = "stream" =>
                /\ Len(allChunkResults) >= j
                /\ allChunkResults[j] = ChunkResult(j, ErrorPlaceholder, "error")
                /\ desiredSize = Open =>
                     \E k \in 1..Len(events) :
                        /\ events[k].type = "chunk-error"
                        /\ events[k].chunkIndex = j
                        /\ events[k].status = "error"
                        /\ events[k].text = ErrorPlaceholder
    /\ (pc = "done" /\ split /\ desiredSize = Open) =>
          /\ outcome = "completed"
          /\ \A j \in 1..totalChunks : callsFor[j] = 1
          /\ Len(transcriptions) = totalChunks

C1_Witness ==
    /\ pc = "done"
    /\ route = "stream"
    /\ outcome = "completed"
    /\ totalChunks >= 2
    /\ 1 \in failedChunks
    /\ HasEvent("chunk-error", 1)
    /\ HasEvent("chunk-complete", 2)

\* C2: when the consumer disconnects during the wait that follows chunk i,
\* no chunk-start is emitted for a later chunk and transcribeAudio is not
\* invoked for a later chunk.
C2_NoChunkAfterDisconnectInWait ==
    discPc = "waitTick" =>
      /\ \A k \in 1..Len(events) :
           events[k].type = "chunk-start" => events[k].chunkIndex <= discChunk
      /\ \A j \in 1..MaxChunks : j > discChunk => callsFor[j] = 0

C2_Witness ==
    /\ discPc = "waitTick"
    /\ pc = "done"
    /\ discChunk < totalChunks
    /\ callsFor[discChunk] = 1

\* C3: once the consumer has disconnected no event is enqueued any more.
C3_NoEventAfterDisconnect == [][desiredSize = Null => events' = events]_vars

C3_Witness ==
    /\ desiredSize = Null
    /\ pc = "done"
    /\ dropped > 0

\* C4: the complete event of a split session carries one result per planned
\* chunk, with chunkIndex 1..N in order and status success or error.
C4_CompleteReportsEveryChunk ==
    \A k \in 1..Len(events) :
       (events[k].type = "complete" /\ split) =>
          LET r == events[k].results IN
          /\ Len(r) = totalChunks
          /\ \A j \in 1..Len(r) :
                /\ r[j].chunkIndex = j
                /\ r[j].status \in {"success", "error"}

C4_Witness ==
    /\ split
    /\ totalChunks >= 2
    /\ \E k \in 1..Len(events) :
          /\ events[k].type = "complete"
          /\ \E a, b \in 1..Len(events[k].results) :
                /\ events[k].results[a].status = "success"
                /\ events[k].results[b].status = "error"

\* C5: the result list is never longer than the plan, its indices are 1..k
\* in order, and no chunk is handed to transcribeAudio twice.
C5_ResultsDenseAndChunksOnce ==
    /\ Len(allChunkResults) <= totalChunks
    /\ \A k \in 1..Len(allChunkResults) : allChunkResults[k].chunkIndex = k
    /\ \A j \in DOMAIN callsFor : callsFor[j] <= 1

C5_Witness ==
    /\ totalChunks >= 2
    /\ Len(allChunkResults) = totalChunks
    /\ \A j \in 1..totalChunks : callsFor[j] = 1

C7_OneCallInFlight == inFlight <= 1

C7_Witness ==
    /\ inFlight = 1
    /\ split
    /\ i = 1
    /\ callsFor[1] = 1
    /\ retryCount > 0

\* C8: an uncancelled split session of N chunks emits N-1 waiting events,
\* one right after the result of every chunk but the last; and a chunk after
\* the first is started only when 15 one-second ticks have elapsed since the
\* wait began.
C8_WaitBetweenChunks ==
    /\ (pc = "done" /\ route = "stream" /\ split /\ outcome = "completed") =>
          /\ Cardinality(EventIndices("waiting")) = totalChunks - 1
          /\ \A k \in 1..Len(events) :
                /\ events[k].type = "waiting" =>
                      /\ k > 1
                      /\ IsResultEvent(events[k - 1])
                      /\ events[k - 1].chunkIndex < totalChunks
                /\ IsResultEvent(events[k]) =>
                      /\ k < Len(events)
                      /\ events[k + 1].type =
                            IF events[k].chunkIndex < totalChunks THEN "waiting"
                            ELSE "complete"
    /\ (events # << >> /\ events[Len(events)].type = "chunk-start"
           /\ events[Len(events)].chunkIndex >= 2) => ticks = 15
    /\ (pc = "invoke" /\ split /\ i >= 1) => ticks = 15

C8_Witness ==
    /\ pc = "done"
    /\ route = "stream"
    /\ outcome = "completed"
    /\ totalChunks >= 2
    /\ Cardinality(EventIndices("waiting")) >= 1

\* C9: after a disconnect during the inter-chunk delay at most one more
\* 1-second tick is waited, and the session ends cancelled.
C9_WaitInterruptible ==
    /\ ticksAfterDisc <= 1
    /\ (discPc = "waitTick" /\ pc = "done") => outcome = "cancelled"
    /\ (discPc = "waitTick" /\ ticksAfterDisc = 1) => pc # "waitTick"

C9_Witness ==
    /\ discPc = "waitTick"
    /\ pc = "done"
    /\ ticksAfterDisc = 1
    /\ ticks < 15

\* C10 as stated: after a disconnect during a retry backoff no further
\* provider attempt is made.
C10_Original == discPc = "backoff" => callsAfterDisc = 0

\* C11 as stated: start is the first event of a session, chunks-created
\* precedes every chunk-start, and the result events come in strictly
\* increasing chunkIndex order.
ChunksCreatedFirst ==
    \A k \in 1..Len(events) :
       events[k].type = "chunk-start" =>
          \E m \in 1..(k - 1) : events[m].type = "chunks-created"

ResultsInIndexOrder ==
    \A k, m \in 1..Len(events) :
       (k < m /\ IsResultEvent(events[k]) /\ IsResultEvent(events[m])) =>
          events[k].chunkIndex < events[m].chunkIndex

C11_Original ==
    /\ events # << >> => events[1].type = "start"
    /\ ChunksCreatedFirst
    /\ ResultsInIndexOrder

\* C11 amended: start is emitted at most once and only as the first event;
\* it is the first event of every session whose upload was read, and a
\* session whose upload cannot be read emits nothing but the error event;
\* chunks-created precedes every chunk-start and the result events come in
\* strictly increasing chunkIndex order.
C11_CausalOrder ==
    /\ \A k \in 1..Len(events) : events[k].type = "start" => k = 1
    /\ events # << >> =>
          \/ events[1].type = "start"
          \/ /\ failCause = "read"
             /\ events = << PlainEvent("error") >>
    /\ (events # << >> /\ failCause # "read") => events[1].type = "start"
    /\ ChunksCreatedFirst
    /\ ResultsInIndexOrder

C11_Witness ==
    /\ pc = "done"
    /\ route = "stream"
    /\ outcome = "completed"
    /\ totalChunks >= 2
    /\ events[1].type = "start"
    /\ HasEvent("chunk-error", 1)
    /\ HasEvent("chunk-complete", 2)
    /\ events[Len(events)].type = "complete"

\* C12: every chunk-start is directly followed by the one result event of its
\* chunk (while the consumer is connected the chunk is otherwise still being
\* transcribed), no chunk has two result events, every processed chunk has
\* exactly one ChunkResult, and what transcribeAudio returns is non-empty
\* trimmed text.
InTranscription ==
    pc \in {"invoke", "attempt", "awaitGenerate", "backoff", "chunkSuccess", "chunkCatch"}

Processed(j) == callsFor[j] = 1 /\ ~(i + 1 = j /\ InTranscription)

C12_OneResultPerChunk ==
    /\ \A k \in 1..Len(events) :
          events[k].type = "chunk-start" =>
             IF k < Len(events)
             THEN /\ IsResultEvent(events[k + 1])
                  /\ events[k + 1].chunkIndex = events[k].chunkIndex
             ELSE desiredSize = Open => (InTranscription /\ i + 1 = events[k].chunkIndex)
    /\ \A k, m \in 1..Len(events) :
          (k # m /\ IsResultEvent(events[k]) /\ IsResultEvent(events[m])) =>
             events[k].chunkIndex # events[m].chunkIndex
    /\ (route = "stream" /\ split) =>
          /\ Len(allChunkResults) = Cardinality({j \in 1..MaxChunks : Processed(j)})
          /\ \A j \in 1..MaxChunks : Processed(j) => allChunkResults[j].chunkIndex = j
          /\ desiredSize = Open =>
                \A j \in 1..MaxChunks :
                   Processed(j) =>
                      \/ HasEvent("chunk-complete", j) /\ allChunkResults[j].status = "success"
                      \/ HasEvent("chunk-error", j) /\ allChunkResults[j].status = "error"
    /\ pc \in {"chunkSuccess", "wholeDone"} =>
          (chunkText # << >> /\ TrimStart(chunkText) = chunkText
             /\ TrimEnd(chunkText) = chunkText)

C12_Witness ==
    /\ pc = "done"
    /\ desiredSize = Open
    /\ route = "stream"
    /\ totalChunks >= 2
    /\ Len(allChunkResults) = totalChunks
    /\ \E j \in 1..totalChunks : HasEvent("chunk-complete", j)
    /\ \E j \in 1..totalChunks : HasEvent("chunk-error", j)

\* the asset of the scenario: 3 minutes at 128 kbps
ThreeMinuteAsset == fileSize = (3 * 60 * 128000) \div 8

NoSplitEvents ==
    \A k \in 1..Len(events) : events[k].type \notin {"chunks-created", "chunk-start"}

\* C14 as stated: the 3-minute asset is not split, one whole-file
\* transcribeAudio invocation is made, and the allChunkResults of the final
\* document is absent or has length 1.
C14_Original ==
    ThreeMinuteAsset =>
      /\ NoSplitEvents
      /\ callsFor[0] <= 1
      /\ \A k \in 1..Len(events) :
            events[k].type = "complete" => Len(events[k].results) = 1

\* C14 amended: the 3-minute asset is not split, no chunk is transcribed, one
\* whole-file transcribeAudio invocation is made, and the allChunkResults of
\* the complete event is the empty list (the non-streaming document has no
\* such field).
C14_ShortAssetNotSplit ==
    ThreeMinuteAsset =>
      /\ ~split
      /\ totalChunks = 0
      /\ NoSplitEvents
      /\ callsFor[0] <= 1
      /\ \A j \in 1..MaxChunks : callsFor[j] = 0
      /\ (pc = "done" /\ outcome = "completed") => callsFor[0] = 1
      /\ allChunkResults = << >>
      /\ \A k \in 1..Len(events) :
            events[k].type = "complete" =>
               /\ events[k].results = << >>
               /\ events[k].doc = << Seg("body", 0, chunkText) >>

C14_Witness ==
    /\ ThreeMinuteAsset
    /\ route = "stream"
    /\ pc = "done"
    /\ outcome = "completed"
    /\ callsFor[0] = 1
    /\ events[Len(events)].type = "complete"

\* The tiers as C15 states them.
TierOf(m) ==
    IF m > 30 THEN 60 ELSE IF m > 15 THEN 120 ELSE IF m > 5 THEN 180 ELSE 300

\* C15: the planner maps estimated minutes m to 60 s chunks if m > 30, 120 s
\* if 15 < m <= 30, 180 s if 5 < m <= 15 and 300 otherwise; both routes split
\* exactly when m > 5, so the chunk length of a split session and of its
\* chunks-created event is the tier of m and one of 60, 120, 180, and a
\* session of m <= 5 makes only the whole-file call.
C15_TiersAndSplit ==
    /\ \A m \in MinuteRange : getOptimalChunkSize(fileSize, m) = TierOf(m)
    /\ (pc \notin {"post", "read"} /\ outcome # "rejected" /\ readOk) =>
          /\ estimatedMinutes = EstimatedMinutes(fileSize)
          /\ (totalChunks > 0) <=> (estimatedMinutes > 5)
    /\ totalChunks > 0 =>
          /\ chunkDuration = TierOf(estimatedMinutes)
          /\ chunkDuration \in {60, 120, 180}
    /\ \A k \in 1..Len(events) :
          events[k].type = "chunks-created" =>
             /\ estimatedMinutes > 5
             /\ events[k].chunkDuration = TierOf(estimatedMinutes)
             /\ events[k].chunkDuration \in {60, 120, 180}
    /\ (\E j \in 1..MaxChunks : callsFor[j] > 0) => estimatedMinutes > 5
    /\ callsFor[0] > 0 => estimatedMinutes <= 5

\* a 30-minute asset was split into 120-second chunks and said so
C15_Witness ==
    /\ route = "stream"
    /\ estimatedMinutes = 30
    /\ \E k \in 1..Len(events) :
          events[k].type = "chunks-created" /\ events[k].chunkDuration = 120
    /\ callsFor[1] > 0

\* C16: the chunk length getOptimalChunkSize returns never grows with the
\* estimated minutes (m1 <= m2 gives a length at least as large for m1), and
\* it is the same for every fileSizeBytes.
C16_MonotoneInMinutes ==
    (call.fn = "getOptimalChunkSize" /\ ret # Pending) =>
        \A z \in {0, 1, MaxFileSize} : \A m2 \in MinuteRange :
            /\ call.minutes <= m2 => ret.value >= getOptimalChunkSize(z, m2)
            /\ m2 <= call.minutes => getOptimalChunkSize(z, m2) >= ret.value
            /\ m2 = call.minutes => getOptimalChunkSize(z, m2) = ret.value

\* the function was applied to 16 minutes, inside the 120-second tier
C16_Witness ==
    /\ call.fn = "getOptimalChunkSize"
    /\ call.minutes = 16
    /\ ret # Pending
    /\ ret.value = 120

\* The bitrate table as C18 refers to it, in kbps; 128 for any other label.
TableKbps(label) ==
    CASE label \in {"audio/mpeg", "audio/mp4", "audio/ogg", "audio/webm"} -> 128
      [] label = "audio/wav" -> 1411
      [] label = "audio/flac" -> 700
      [] OTHER -> 128

\* k is bytes * 8 / (kbps * 1000) rounded to the nearest integer, halves up
IsRounded(k, bytes, kbps) ==
    LET n == bytes * 8
        d == kbps * 1000
    IN  /\ 2 * k * d - d <= 2 * n
        /\ 2 * n < 2 * k * d + d

C13_Original ==
    (call.fn = "planning" /\ ret # Pending /\ ret.estimatedMinutes = 40) =>
        /\ ret.split
        /\ ret.chunkDuration = 60
        /\ ret.returns
        /\ Len(ret.chunks) = 40

\* C17 as stated: the minutes that drive the split decision and the tier are
\* the estimator's seconds for the declared format, to the nearest minute.
C17_Original ==
    (call.fn = "planning" /\ ret # Pending) =>
        LET seconds == SecondsOf(ret.estimatedDuration)
            planned == 60 * ret.estimatedMinutes
        IN  /\ seconds - planned <= 30
            /\ planned - seconds <= 30

\* the chunk list of a chunkAudio call that returned
Returned == call.fn = "chunkAudio" /\ ret # Pending /\ ret.returns

\* C19: the time ranges of a returned chunk list are contiguous and
\* gap-free, in the decoded and in the byte-slicing path: the first chunk
\* starts at 0, every chunk ends where the next one starts, and every chunk
\* starts before it ends.
C19_ContiguousRanges ==
    Returned =>
        LET chunks == ret.chunks
        IN  /\ Len(chunks) > 0 => chunks[1].startTime.num = 0
            /\ \A k \in 1..Len(chunks) :
                  /\ chunks[k].startTime.den = chunks[k].endTime.den
                  /\ chunks[k].startTime.scale = chunks[k].endTime.scale
                  /\ chunks[k].startTime.den > 0
                  /\ chunks[k].startTime.num < chunks[k].endTime.num
                  /\ chunks[k].chunkIndex = k - 1
            /\ \A k \in 1..(Len(chunks) - 1) :
                  chunks[k].endTime = chunks[k + 1].startTime

\* a 9,600,000-byte buffer sliced for 180-second chunks: 14 chunks up to the
\* last byte
C19_Witness ==
    /\ Returned
    /\ ~call.hasAudioContext
    /\ call.audio.byteLength = 9600000
    /\ call.duration = 180
    /\ Len(ret.chunks) = 14
    /\ ret.chunks[14].endTime.num = 9600000

\* whole seconds of a chunk time
Seconds(t) ==
    LET g == Gcd(t.num, t.den)
    IN  (t.scale * (t.num \div g)) \div (t.den \div g)

CeilDiv(a, b) == (a + b - 1) \div b

Abs(x) == IF x < 0 THEN 0 - x ELSE x

\* a planning call that split the asset
SplitPlanned == call.fn = "planning" /\ ret # Pending /\ ret.split /\ ret.returns

\* C20 as stated: the last chunk of a split asset ends at about the asset's
\* estimated duration and there are about ceil(estimated duration / chunk
\* length) chunks; "about" is within one chunk length and within one chunk.
C20_Original ==
    SplitPlanned =>
        LET estimated == 60 * ret.estimatedMinutes
            last == ret.chunks[Len(ret.chunks)]
        IN  /\ Len(ret.chunks) > 0
            /\ Abs(Seconds(last.endTime) - estimated) <= ret.chunkDuration
            /\ Abs(Len(ret.chunks) - CeilDiv(estimated, ret.chunkDuration)) <= 1

\* C20: the chunk plan of every split asset covers the 40 minutes the byte
\* slicing assumes, whatever the estimated duration: the last chunk ends at
\* exactly 2400 s and there are ceil(2400 / chunk length) chunks or one more.
C20_CoversAssumedTotal ==
    SplitPlanned =>
        LET last == ret.chunks[Len(ret.chunks)]
            count == CeilDiv(2400, ret.chunkDuration)
        IN  /\ Len(ret.chunks) > 0
            /\ last.to = call.size
            /\ last.endTime.num = last.endTime.den
            /\ last.endTime.scale = 2400
            /\ Len(ret.chunks) \in {count, count + 1}

\* a 10-minute asset planned as 14 chunks of 180 s reaching 2400 s
C20_Witness ==
    /\ SplitPlanned
    /\ call.size = 9600000
    /\ ret.estimatedMinutes = 10
    /\ ret.chunkDuration = 180
    /\ Len(ret.chunks) = 14
    /\ Seconds(ret.chunks[14].endTime) = 2400

\* the texts of a result list, and the same texts under their headers
TextsOf(results) ==
    [k \in 1..Len(results) |-> << Seg("body", 0, results[k].text) >>]
HeadedTextsOf(results) ==
    [k \in 1..Len(results) |->
        << Seg("header", results[k].chunkIndex, << >>),
           Seg("body", 0, results[k].text) >>]

\* the complete event of a split session, if it was emitted
IsSplitComplete(e) == e.type = "complete" /\ split

\* C27 as stated: the texts of allChunkResults, joined by the separator in
\* index order, are the text of the document.
C27_Original ==
    \A k \in 1..Len(events) :
        IsSplitComplete(events[k]) =>
            events[k].doc = Join(TextsOf(events[k].results), Separator)

\* C27: the text of a split session's document is the join, by the
\* separator and in index order, of every entry of allChunkResults written
\* as its time-range header line followed by its text.
C27_RoundTripWithHeaders ==
    \A k \in 1..Len(events) :
        IsSplitComplete(events[k]) =>
            /\ events[k].doc = Join(HeadedTextsOf(events[k].results), Separator)
            /\ \A j \in 1..Len(events[k].results) :
                  events[k].results[j].chunkIndex = j

\* a completed session of three chunks, the second of them failed
C27_Witness ==
    /\ route = "stream"
    /\ outcome = "completed"
    /\ totalChunks = 3
    /\ failedChunks = {2}
    /\ IsSplitComplete(events[Len(events)])
    /\ Len(events[Len(events)].results) = 3

\* C30 as stated: when no chunk failed, the transcript the client has built
\* from the events before the complete event is that event's text.
C30_Original ==
    \A k \in 1..Len(events) :
        (events[k].type = "complete" /\ failedChunks = {}) =>
            LiveTranscript(k - 1) = events[k].doc

\* C30: in a split streaming session in which every chunk succeeded, the
\* transcript the client has built from the chunk-complete events received
\* before the complete event equals that event's text.
C30_LiveEqualsDocument ==
    \A k \in 1..Len(events) :
        (events[k].type = "complete" /\ split /\ failedChunks = {}) =>
            LiveTranscript(k - 1) = events[k].doc

\* two chunks succeeded and the complete event was delivered
C30_Witness ==
    /\ route = "stream"
    /\ outcome = "completed"
    /\ totalChunks = 2
    /\ failedChunks = {}
    /\ events[Len(events)].type = "complete"
    /\ Len(LiveTranscript(Len(events))) = 5

\* the call went down the byte-slicing path of chunkAudio
BytePath == ~call.hasAudioContext \/ ~call.audio.decodes

\* C21: the splitter returns the empty chunk sequence for an empty buffer
\* (and for decoded audio of no samples); an empty asset is not handed to the
\* splitter at all but goes to whole-file transcription, and whenever the
\* routes do split, the splitter's sequence is not empty, so no session
\* walks an empty plan into a document of empty text.
C21_EmptyBufferNotSplit ==
    /\ (call.fn = "chunkAudio" /\ ret # Pending) =>
          /\ (BytePath /\ call.audio.byteLength = 0) =>
                (ret.returns /\ ret.chunks = << >>)
          /\ (~BytePath /\ call.audio.totalSamples = 0) =>
                (ret.returns /\ ret.chunks = << >>)
          /\ (ret.returns /\ ret.chunks = << >>) =>
                IF BytePath THEN call.audio.byteLength = 0
                ELSE call.audio.totalSamples = 0
    /\ (call.fn = "planning" /\ ret # Pending) =>
          /\ call.size = 0 => (~ret.split /\ ret.chunks = << >>)
          /\ ret.split => (ret.returns /\ Len(ret.chunks) > 0)

\* chunkAudio was applied to an empty buffer on the server
C21_Witness ==
    /\ call.fn = "chunkAudio"
    /\ ~call.hasAudioContext
    /\ call.audio.byteLength = 0
    /\ ret # Pending
    /\ ret.returns
    /\ ret.chunks = << >>

\* the request carries a file / a name has an extension of the allow-list
HasFile == call.field = "file"
HasAllowedExtension(name) ==
    /\ Len(name) >= 2
    /\ toLowerCase(name[Len(name)]) \in {"mp3", "m4a", "wav", "flac", "ogg", "webm"}

\* the request was answered with 400 and the core never ran
Rejected400 ==
    /\ pc = "done"
    /\ response = 400
    /\ events = << >>
    /\ closeCalls = 0
    /\ inFlight = 0
    /\ \A j \in 0..MaxChunks : callsFor[j] = 0

\* C28 as stated: on both routes a request without a file, with a file of
\* more than 100 MB or with a file whose extension is not one of .mp3, .m4a,
\* .wav, .flac, .ogg, .webm is answered with status 400 before the core
\* runs: no event, no stream closed, no provider call.
C28_Original ==
    (pc # "post" /\ (~HasFile \/ fileSize > 100 * 1024 * 1024
                               \/ ~HasAllowedExtension(call.name))) =>
        Rejected400

\* where the caller of transcribeAudio continues after it returned / threw
ReturnedPcs == {"chunkSuccess", "wholeDone"}
ThrownPcs == {"chunkCatch", "outerCatch"}
ModelsCalled == {ret.log[k].model : k \in 1..Len(ret.log)}

\* C22: transcribeAudio calls the models strictly in list order, starting
\* with the first and never skipping one; a call that yields a text ends the
\* invocation with that text, on the model that was called last; when it
\* throws, all four models were called, the last one last, and the error
\* thrown is the error of the last call.
C22_ModelsInListOrder ==
    Observed =>
        /\ \A k \in 1..Len(ret.log) : ret.log[k].model \in 1..4
        /\ Len(ret.log) > 0 => ret.log[1].model = 1
        /\ \A k \in 1..(Len(ret.log) - 1) :
              ret.log[k + 1].model \in {ret.log[k].model, ret.log[k].model + 1}
        /\ ret.lastCall = "text" <=> pc \in ReturnedPcs
        /\ pc \in ReturnedPcs =>
              /\ chunkText # << >>
              /\ ret.log[Len(ret.log)].model = modelIdx
              /\ ModelsCalled = 1..modelIdx
        /\ pc \in ThrownPcs =>
              /\ ModelsCalled = 1..4
              /\ ret.log[Len(ret.log)].model = 4
              /\ ret.lastCall \in {"empty", "transient", "permanent", "format"}
              /\ lastError = ret.lastCall

\* the third model answered after the first two models failed
C22_Witness ==
    /\ Observed
    /\ pc \in ReturnedPcs
    /\ modelIdx = 3
    /\ ModelsCalled = {1, 2, 3}
    /\ lastError # "none"

CallsOf(m) == {k \in 1..Len(ret.log) : ret.log[k].model = m}
Retries == {k \in 1..Len(ret.log) : ret.log[k].attempt >= 2}

\* what holds of the calls and waits of an invocation at every moment
AttemptsBounded ==
    /\ \A m \in 1..4 : Cardinality(CallsOf(m)) <= 3
    /\ Len(ret.log) <= 12
    /\ \A k \in 1..Len(ret.log) :
          /\ ret.log[k].attempt \in 1..3
          /\ k > 1 =>
                IF ret.log[k].model = ret.log[k - 1].model
                THEN ret.log[k].attempt = ret.log[k - 1].attempt + 1
                ELSE ret.log[k].attempt = 1 /\ ret.log[k - 1].attempt = 3
    /\ \A w \in 1..Len(ret.waits) : ret.waits[w].afterAttempt \in 1..2
    /\ \A w, v \in 1..Len(ret.waits) : w # v => ret.waits[w] # ret.waits[v]
    /\ \A k \in Retries :
          \E w \in 1..Len(ret.waits) :
             ret.waits[w] = [model |-> ret.log[k].model,
                             afterAttempt |-> ret.log[k].attempt - 1]
    /\ Len(ret.waits) =
          Cardinality(Retries) + (IF pc = "attempt" /\ retryCount > 0 THEN 1 ELSE 0)
    /\ ret.lastCall = "empty" => pc \notin ReturnedPcs
    /\ (ret.lastCall = "empty" /\ pc = "backoff") => retryCount \in 1..2

\* C23: every model gets at most 3 provider calls, numbered 1 to 3; an empty
\* or whitespace-only answer is a failed attempt like a rejection; one
\* 20-second wait lies between two consecutive attempts on a model and none
\* follows the third; an invocation makes at most 12 calls and, when every
\* call settles, it returns or throws.
C23_BoundedRetriesAndTermination ==
    /\ [](Observed => AttemptsBounded)
    /\ <>(pc \in ReturnedPcs \cup ThrownPcs)

\* all four models exhausted: twelve calls, eight waits
C23_Witness ==
    /\ Observed
    /\ pc \in ThrownPcs
    /\ Len(ret.log) = 12
    /\ Len(ret.waits) = 8
    /\ ret.lastCall = "empty"

\* C24 as stated: after a refusal of the content no further provider call
\* and no backoff wait is made in the invocation.
C24_Original == Observed => ~ret.afterPermanent

\* C25 as stated: a payload below 1 KB is rejected at once: transcribeAudio
\* throws without a provider call and without a wait.
C25_Original ==
    (Observed /\ call.bytes < 1024 /\ pc # "invoke") =>
        /\ pc \in ThrownPcs
        /\ ret.log = << >>
        /\ ret.waits = << >>

\* C26 as stated: an invocation that gives up after the provider refused the
\* declared format has sent the bytes under another declared format as well.
C26_Original ==
    (Observed /\ pc \in ThrownPcs /\ ret.lastCall = "format") =>
        \E k \in 1..Len(ret.log) : ret.log[k].mimeType # call.mimeType

TerminalEvents == {k \in 1..Len(events) : events[k].type \in {"complete", "error"}}
\* the POST handler accepted the upload and opened the stream
StreamOpened == route = "stream" /\ response = 200

\* what holds of a streaming session with a connected consumer
OneTerminalEventThenClose ==
    StreamOpened =>
        /\ pc # "done" => (TerminalEvents = {} /\ closeCalls = 0)
        /\ pc = "done" =>
              /\ TerminalEvents = {Len(events)}
              /\ closeCalls = 1
              /\ events[Len(events)].type = "complete" =>
                    /\ events[Len(events)].results = allChunkResults
                    /\ split => Len(allChunkResults) = totalChunks
                    /\ split => \A j \in 1..totalChunks :
                                   /\ allChunkResults[j].chunkIndex = j
                                   /\ allChunkResults[j].status \in {"success", "error"}

\* C29: when every provider call returns and the consumer stays connected, a
\* streaming session reaches its end: it has emitted exactly one terminal
\* event, as its last event (complete, with a result for every planned chunk,
\* or error), and has closed the stream once; before the end it has emitted
\* no terminal event and has not closed the stream.
C29_SessionTerminates ==
    /\ [](OneTerminalEventThenClose)
    /\ <>(pc = "done")

\* a split session ended with complete although one of its chunks failed
C29_Witness ==
    /\ StreamOpened
    /\ pc = "done"
    /\ split
    /\ totalChunks >= 2
    /\ failedChunks # {}
    /\ events[Len(events)].type = "complete"
    /\ closeCalls = 1

\* C31: the chunks the byte-slicing path returns are non-empty slices of the
\* input that follow one another without gap or overlap from the first byte
\* to the last: the first starts at offset 0, each starts where the one
\* before ends, the last ends at the byte length, and each carries exactly
\* the bytes between its offsets, so the payloads concatenated in chunk
\* order are the input and their lengths add up to its length.
C31_SlicesPartitionInput ==
    (Returned /\ BytePath) =>
        LET chunks == ret.chunks
            n == Len(chunks)
        IN  /\ n > 0 => (chunks[1].from = 0 /\ chunks[n].to = call.audio.byteLength)
            /\ n = 0 => call.audio.byteLength = 0
            /\ \A k \in 1..n :
                  /\ chunks[k].encoding = "slice"
                  /\ chunks[k].from < chunks[k].to
                  /\ chunks[k].bytes = chunks[k].to - chunks[k].from
                  /\ chunks[k].bytes > 0
                  /\ chunks[k].chunkIndex = k - 1
            /\ \A k \in 1..(n - 1) : chunks[k].to = chunks[k + 1].from

\* 38,400,001 bytes sliced for 60-second chunks: forty slices of 960,000
\* bytes and the last byte as the forty-first
C31_Witness ==
    /\ Returned
    /\ BytePath
    /\ call.audio.byteLength = 38400001
    /\ call.duration = 60
    /\ Len(ret.chunks) = 41
    /\ ret.chunks[40].to = 38400000
    /\ ret.chunks[41].from = 38400000
    /\ ret.chunks[41].bytes = 1

\* C32 as stated: for every chunk plan of a split asset the waiting between
\* the chunks alone is shorter than the time limit of either route.
C32_Original ==
    SplitPlanned =>
        /\ MandatoryWaitSeconds(Len(ret.chunks)) < RouteMaxDuration
        /\ MandatoryWaitSeconds(Len(ret.chunks)) < StreamMaxDuration

\* the second route of a paired upload has answered
BothDone == Paired /\ ret.phase = 2 /\ pc = "done"

\* C33: for the same upload and the same provider answers, with the consumer
\* connected throughout, /api/transcribe answers with a text exactly when
\* the streaming route delivered a complete event, and the two texts are
\* equal: the same pieces with the same headers, placeholders and separator.
C33_RoutesAgree ==
    BothDone =>
        /\ ret.completed <=> (outcome = "completed" /\ response = 200)
        /\ ret.completed => transcriptionText = ret.text

\* a split upload of three chunks, the second of which failed, answered with
\* equal texts by both routes
C33_Witness ==
    /\ BothDone
    /\ ret.completed
    /\ ret.chunks = 3
    /\ failedChunks = {2}
    /\ Len(transcriptions) = 3
    /\ transcriptionText = ret.text
    /\ Len(ret.text) > 5

\* C34: a streaming session emits at most one terminal event and nothing
\* after it: at every moment the events hold at most one complete or error
\* event, and if they hold one it is the last event.
C34_AtMostOneTerminalEvent ==
    route = "stream" =>
        /\ Cardinality(TerminalEvents) <= 1
        /\ TerminalEvents \subseteq {Len(events)}
        /\ pc # "done" => TerminalEvents = {}

\* a split session whose consumer stayed to the end: chunk events, then the
\* complete event as the one terminal event
C34_Witness ==
    /\ route = "stream"
    /\ pc = "done"
    /\ split
    /\ desiredSize = Open
    /\ Len(events) > 6
    /\ TerminalEvents = {Len(events)}
    /\ events[Len(events)].type = "complete"

\* C35 as stated: controller.close() is called at most once in a session and
\* never after the consumer has left.
C35_Original ==
    [][closeCalls' # closeCalls => (closeCalls = 0 /\ desiredSize = Open)]_vars

\* C36 as stated: every chunkAudio call returns a chunk list, whatever the
\* buffer and the chunk duration.
C36_Original == (call.fn = "chunkAudio" /\ ret # Pending) => ret.returns

\* the format of the bytes a chunk carries: WAV when the chunk was re-encoded
\* from decoded samples, the asset's own format when it is a slice of it
CarriedMimeType(chunk, assetMimeType) ==
    IF chunk.encoding = "wav" THEN "audio/wav" ELSE assetMimeType

\* C37 as stated: every chunk of a split asset is handed to the
\* transcription client under the format of the bytes it carries.
C37_Original ==
    SplitPlanned =>
        \A k \in 1..Len(ret.chunks) :
            ChunkMimeType = CarriedMimeType(ret.chunks[k], ret.mimeType)

\* the reader loop took its turns up to the end of the stream
Drained == call.fn = "read" /\ ret.done

\* C38 as stated: whatever the reads, the reader has handed every event of
\* the stream to handleStreamEvent exactly once and in order when the stream
\* ends.
C38_Original ==
    Drained =>
        /\ Len(ret.dispatched) = Len(call.sent)
        /\ \A k \in 1..Len(ret.dispatched) : ret.dispatched[k].src = k

\* C39 as stated: every call of handleStreamEvent carries the data of the
\* event whose "event:" line caused it.
C39_Original ==
    call.fn = "read" =>
        \A k \in 1..Len(ret.dispatched) :
            ret.dispatched[k].data = call.sent[ret.dispatched[k].src].data

====
